---- MODULE Spec2Model ----
(***************************************************************************)
(* Model of the boat power sizer (src/script.js): the load table, the      *)
(* generation sources, the settings form, recalc and its derived totals,   *)
(* and the save / load / autosave boundary in localStorage.                *)
(*                                                                         *)
(* Numbers.  A JavaScript number is modelled as an exact fraction <<n, d>> *)
(* in lowest terms with d > 0; the three non-finite doubles are kept as    *)
(* <<1, 0>> (Infinity), <<-1, 0>> (-Infinity) and <<0, 0>> (NaN), with     *)
(* the IEEE rules for them.  Rounding of the binary representation is not  *)
(* modelled.  A missing value (undefined, null, or the empty text of an    *)
(* <input type="number">) is the empty tuple NoVal.                        *)
(***************************************************************************)
EXTENDS Integers, Sequences, FiniteSets, TLC

VARIABLES
    settings,        \* state.settings
    rows,            \* state.rows
    gen,             \* state.gen
    editId,          \* state.editId
    unitMode,        \* unitMode
    manualDodChange, \* manualDodChange
    form,            \* the settings inputs: voltage, chemistry, dod, ...
    kpi,             \* the totals recalc wrote last (KPI texts, layout)
    scenario,        \* localStorage["boatSizerScenario"]
    autosave,        \* localStorage["boatSizerAutosaveV2"]
    reports,         \* the model recalc passed to renderReports last
    toast,           \* the message toast() showed last ("" when none yet)
    nextId,          \* source of fresh ids for newId()
    lastOp,          \* the handler that ran last
    nOps,            \* number of user events handled in this session
    call,            \* pure-function harness: the pending call
    ret              \* pure-function harness: its result

vars == <<settings, rows, gen, editId, unitMode, manualDodChange, form, kpi,
          scenario, autosave, reports, toast, nextId, lastOp, nOps, call, ret>>

-----------------------------------------------------------------------------
(* JavaScript numbers *)

NoVal == <<>>

Abs(x) == IF x < 0 THEN -x ELSE x
Sgn(x) == IF x > 0 THEN 1 ELSE IF x < 0 THEN -1 ELSE 0

RECURSIVE Gcd(_, _)
Gcd(a, b) == IF b = 0 THEN a ELSE Gcd(b, a % b)

Norm(n, d) ==
    IF d = 0 THEN <<Sgn(n), 0>>
    ELSE LET g == Gcd(Abs(n), Abs(d))
         IN  <<(Sgn(d) * n) \div g, Abs(d) \div g>>

N(i) == <<i, 1>>
Q(n, d) == Norm(n, d)
NaN == <<0, 0>>
PosInf == <<1, 0>>
NegInf == <<-1, 0>>

IsNum(x) == Len(x) = 2
IsNaN(x) == x = NaN
IsFinite(x) == IsNum(x) /\ x[2] # 0

\* ToNumber of a value used in arithmetic: undefined becomes NaN.
ToNum(x) == IF IsNum(x) THEN x ELSE NaN

RAdd(a0, b0) ==
    LET a == ToNum(a0)
        b == ToNum(b0)
    IN  IF a[2] = 0 /\ b[2] = 0
        THEN IF a = b THEN a ELSE NaN
        ELSE Norm(a[1] * b[2] + b[1] * a[2], a[2] * b[2])

RNeg(a0) == LET a == ToNum(a0) IN <<-a[1], a[2]>>

RSub(a, b) == RAdd(a, RNeg(b))

RMul(a0, b0) ==
    LET a == ToNum(a0)
        b == ToNum(b0)
    IN  Norm(a[1] * b[1], a[2] * b[2])

\* 1/x: 1/0 is Infinity, 1/Infinity is 0, 1/NaN is NaN.
RInv(a) ==
    IF IsNaN(a) THEN NaN
    ELSE IF a[1] = 0 THEN PosInf
    ELSE IF a[2] = 0 THEN N(0)
    ELSE <<Sgn(a[1]) * a[2], Abs(a[1])>>

RDiv(a0, b0) ==
    LET a == ToNum(a0)
        b == ToNum(b0)
    IN  IF a[2] = 0 /\ b[2] = 0 THEN NaN ELSE RMul(a, RInv(b))

\* a < b, a <= b, a > b as JavaScript compares: false when either is NaN.
RLt(a0, b0) ==
    LET a == ToNum(a0)
        b == ToNum(b0)
    IN  /\ ~IsNaN(a)
        /\ ~IsNaN(b)
        /\ IF a[2] = 0 /\ b[2] = 0 THEN a[1] < b[1]
           ELSE a[1] * b[2] < b[1] * a[2]

RLe(a0, b0) ==
    LET a == ToNum(a0)
        b == ToNum(b0)
    IN  ~IsNaN(a) /\ ~IsNaN(b) /\ ~RLt(b, a)

RGt(a, b) == RLt(b, a)
RGe(a, b) == RLe(b, a)

\* Math.max / Math.min of two numbers: NaN when either is NaN.
MathMax(a0, b0) ==
    LET a == ToNum(a0)
        b == ToNum(b0)
    IN  IF IsNaN(a) \/ IsNaN(b) THEN NaN ELSE IF RLt(a, b) THEN b ELSE a

MathMin(a0, b0) ==
    LET a == ToNum(a0)
        b == ToNum(b0)
    IN  IF IsNaN(a) \/ IsNaN(b) THEN NaN ELSE IF RLt(b, a) THEN b ELSE a

\* Math.abs
MathAbs(a0) == LET a == ToNum(a0) IN <<Abs(a[1]), a[2]>>

\* Math.round: the nearest integer, halves towards +Infinity.
MathRound(a0) ==
    LET a == ToNum(a0)
    IN  IF a[2] = 0 THEN a ELSE N((2 * a[1] + a[2]) \div (2 * a[2]))

\* Math.ceil
MathCeil(a0) ==
    LET a == ToNum(a0)
    IN  IF a[2] = 0 THEN a ELSE N(-((-a[1]) \div a[2]))

\* x || y on numbers: undefined, null, 0 and NaN are falsy.
Truthy(x) == IsNum(x) /\ x[1] # 0
OrElse(x, y) == IF Truthy(x) THEN x ELSE y

\* x ?? y: only undefined and null fall through.
Coalesce(x, y) == IF x = NoVal THEN y ELSE x

-----------------------------------------------------------------------------
(* Program constants *)

Chems == {"LFP", "AGM", "GEL"}

dodByChem == [c \in Chems |->
                 IF c = "LFP" THEN N(88) ELSE IF c = "AGM" THEN N(50) ELSE N(55)]

\* DEFAULTS, without the dodByChem table kept above.
DEFAULTS ==
    [chemistry |-> "LFP", voltage |-> N(12), reserve |-> N(20), days |-> N(2),
     invEff |-> N(90), invStandby |-> N(6), derate |-> N(0)]

CATS == <<"Lights", "Nav/Comms", "Instruments", "Pumps", "Comfort", "Galley",
          "Entertainment", "Misc">>

libW(name, cat, watts, hA, hS, duty, qty, type) ==
    [name |-> name, category |-> cat, type |-> type, entry |-> "W",
     value |-> watts, hAnchor |-> hA, hSail |-> hS, duty |-> duty, qty |-> qty]

libA(name, cat, amps, hA, hS, duty, qty, type) ==
    [name |-> name, category |-> cat, type |-> type, entry |-> "A",
     value |-> amps, hAnchor |-> hA, hSail |-> hS, duty |-> duty, qty |-> qty]

LIB ==
    << libW("Anchor Light (LED)", "Lights", N(2), N(8), N(0), N(100), N(1), "DC"),
       libW("Anchor Light (Incandescent 25 W)", "Lights", N(25), N(8), N(0),
            N(100), N(1), "DC"),
       libA("Cabin Lights (LED group avg)", "Lights", Q(6, 10), N(3), N(0),
            N(100), N(1), "DC"),
       libW("Running/Nav Lights (LED set)", "Lights", N(6), N(0), N(4), N(100),
            N(1), "DC"),
       libA("VHF (standby avg)", "Nav/Comms", Q(3, 10), N(0), N(5), N(100), N(1),
            "DC"),
       libA("Chartplotter/MFD", "Instruments", N(1), N(0), N(5), N(100), N(1),
            "DC"),
       libA("Depth/Wind (avg)", "Instruments", Q(4, 10), N(0), N(5), N(100),
            N(1), "DC"),
       libA("Cabin Fan", "Comfort", Q(18, 100), N(12), N(0), N(100), N(1), "DC"),
       libW("Laptop (USB-PD 35 W)", "Misc", N(35), N(4), N(0), N(100), N(1), "DC"),
       libW("Laptop (AC 65 W via inverter)", "Misc", N(65), N(4), N(0), N(100),
            N(1), "AC"),
       libW("Fridge (60 W @ 35% duty)", "Misc", N(60), N(24), N(0), N(35), N(1),
            "DC"),
       libW("Microwave 900 W (10 min)", "Galley", N(900), Q(17, 100), N(0),
            N(100), N(1), "AC"),
       libW("Coffee Maker 900 W (10 min)", "Galley", N(900), Q(17, 100), N(0),
            N(100), N(1), "AC"),
       libA("Stereo (avg listening)", "Entertainment", N(2), N(6), N(0), N(100),
            N(1), "DC") >>

\* The row addRow() creates when it is given no argument.
NewLoad ==
    [name |-> "New Load", category |-> CATS[1], type |-> "DC", entry |-> "W",
     value |-> N(1), hAnchor |-> N(0), hSail |-> N(0), duty |-> N(100),
     qty |-> N(1)]

-----------------------------------------------------------------------------
(* Objects: a property that is absent reads as undefined *)

StrFields == {"name", "category", "type", "entry", "chemistry"}

Get(o, k) == IF k \in DOMAIN o THEN o[k] ELSE IF k \in StrFields THEN "" ELSE NoVal

\* Object.assign(a, b) / {...a, ...b}: b's properties override a's.
Assign(a, b) ==
    [k \in (DOMAIN a) \cup (DOMAIN b) |-> IF k \in DOMAIN b THEN b[k] ELSE a[k]]

\* A destructuring default: the default is taken when the property is absent.
Dflt(x, d) == IF x = NoVal THEN d ELSE x

-----------------------------------------------------------------------------
(* num, clamp *)

\* parseFloat of the text of a number input; "" (NoVal) parses to NaN.
num(v) == IF IsNum(v) /\ ~IsNaN(v) THEN v ELSE N(0)

\* clamp that forgets the upper bound.
clamp_noUpper(x, a, b) == MathMax(a, x)

clamp(x, a, b) == MathMin(b, MathMax(a, x))

\* What an <input type="number"> holds after .value = x: the number's text,
\* or the empty text when x is not a finite number.
ToText(x) == IF IsFinite(x) THEN x ELSE NoVal

\* Unary plus on the text of a number input: "" is 0.
Plus(t) == IF IsNum(t) THEN t ELSE N(0)

-----------------------------------------------------------------------------
(* Per-row and per-source energy *)

\* effectiveHours without its two Math.max(0, .) clamps.
effectiveHours_noClamp(hours, duty, qty) ==
    RMul(RMul(OrElse(hours, N(0)), OrElse(duty, N(0))), OrElse(qty, N(0)))

\* effectiveHours that leaves the quantity out.
effectiveHours_noQty(hours, duty, qty) ==
    RMul(MathMax(N(0), OrElse(hours, N(0))), MathMax(N(0), OrElse(duty, N(0))))

\* const h = Math.max(0, hours || 0) * Math.max(0, duty || 0) * (qty || 0)
effectiveHours(hours, duty, qty) ==
    RMul(RMul(MathMax(N(0), OrElse(hours, N(0))),
              MathMax(N(0), OrElse(duty, N(0)))),
         OrElse(qty, N(0)))

\* rowWh converting AC amps with the system voltage instead of 120 V.
rowWh_acSystemVolts(s, r, hours, duty, qty) ==
    LET v == Get(s, "voltage")
        eff == RDiv(Get(s, "invEff"), N(100))
        h == effectiveHours(hours, duty, qty)
        value == OrElse(Get(r, "value"), N(0))
    IN  IF RLe(h, N(0)) THEN N(0)
        ELSE IF Get(r, "type") = "AC"
        THEN IF Get(r, "entry") = "W"
             THEN RDiv(RMul(value, h), eff)
             ELSE RDiv(RMul(RMul(value, v), h), eff)
        ELSE IF Get(r, "entry") = "W"
             THEN RMul(value, h)
             ELSE RMul(RMul(value, v), h)

rowWh(s, r, hours, duty, qty) ==
    LET v == Get(s, "voltage")
        eff == RDiv(Get(s, "invEff"), N(100))
        h == effectiveHours(hours, duty, qty)
        value == OrElse(Get(r, "value"), N(0))
    IN  IF RLe(h, N(0)) THEN N(0)
        ELSE IF Get(r, "type") = "AC"
        THEN IF Get(r, "entry") = "W"
             THEN RDiv(RMul(value, h), eff)
             ELSE RDiv(RMul(RMul(value, N(120)), h), eff)
        ELSE IF Get(r, "entry") = "W"
             THEN RMul(value, h)
             ELSE RMul(RMul(value, v), h)

solarWh(e) ==
    LET panelW == Dflt(Get(e, "panelW"), N(0))
        panels == Dflt(Get(e, "panels"), N(0))
        sunHrs == Dflt(Get(e, "sunHrs"), N(0))
        deratePct == Dflt(Get(e, "deratePct"), N(0))
        ctrlEffPct == Dflt(Get(e, "ctrlEffPct"), N(100))
    IN  RMul(RMul(RMul(RMul(panelW, panels), sunHrs),
                  RSub(N(1), RDiv(deratePct, N(100)))),
             RDiv(ctrlEffPct, N(100)))

windWh(e) ==
    LET ratedW == Dflt(Get(e, "ratedW"), N(0))
        capacityPct == Dflt(Get(e, "capacityPct"), N(0))
        hours == Dflt(Get(e, "hours"), N(0))
    IN  RMul(RMul(ratedW, RDiv(capacityPct, N(100))), hours)

alternatorWh(e, v) ==
    LET dcAmps == Dflt(Get(e, "dcAmps"), N(0))
        hours == Dflt(Get(e, "hours"), N(0))
    IN  RMul(RMul(dcAmps, v), hours)

\* chargerWh that forgets the charger's efficiency.
chargerWh_noEff(e, v) ==
    LET dcAmps == Dflt(Get(e, "dcAmps"), N(0))
        hours == Dflt(Get(e, "hours"), N(0))
    IN  RMul(RMul(dcAmps, v), hours)

chargerWh(e, v) ==
    LET dcAmps == Dflt(Get(e, "dcAmps"), N(0))
        hours == Dflt(Get(e, "hours"), N(0))
        effPct == Dflt(Get(e, "effPct"), N(100))
    IN  RMul(RMul(RMul(dcAmps, v), hours), RDiv(effPct, N(100)))

genEntryWh(e, v) ==
    LET qty == OrElse(Get(e, "qty"), N(1))
    IN  IF Get(e, "type") = "Solar" THEN RMul(qty, solarWh(e))
        ELSE IF Get(e, "type") = "Wind" THEN RMul(qty, windWh(e))
        ELSE IF Get(e, "type") = "Alternator" THEN RMul(qty, alternatorWh(e, v))
        ELSE IF Get(e, "type") = "AC Charger" THEN RMul(qty, chargerWh(e, v))
        ELSE N(0)

\* readGenForm: raw holds the texts of the source form; id is
\* state.editId ?? newId().
readGenForm(raw, id) ==
    LET type == Get(raw, "type")
        base == [id |-> id, type |-> type,
                 name |-> IF Get(raw, "name") = "" THEN type ELSE Get(raw, "name"),
                 qty |-> MathMax(N(1), MathRound(OrElse(num(Get(raw, "qty")), N(1)))),
                 hours |-> MathMax(N(0), OrElse(num(Get(raw, "hours")), N(0)))]
    IN  IF type = "Solar"
        THEN Assign(base,
                 [panelW |-> num(Get(raw, "panelW")),
                  panels |-> MathMax(N(1),
                                 MathRound(OrElse(num(Get(raw, "panels")), N(1)))),
                  sunHrs |-> num(Get(raw, "sun")),
                  deratePct |-> clamp(num(Get(raw, "derate")), N(0), N(100)),
                  ctrlEffPct |-> clamp(num(Get(raw, "ctrl")), N(0), N(100))])
        ELSE IF type = "Wind"
        THEN Assign(base,
                 [ratedW |-> num(Get(raw, "rated")),
                  capacityPct |-> clamp(num(Get(raw, "cf")), N(0), N(100))])
        ELSE IF type = "Alternator"
        THEN Assign(base, [dcAmps |-> num(Get(raw, "amps"))])
        ELSE IF type = "AC Charger"
        THEN Assign(base,
                 [dcAmps |-> num(Get(raw, "amps")),
                  effPct |-> clamp(num(Get(raw, "eff")), N(0), N(100))])
        ELSE base

-----------------------------------------------------------------------------
(* recalc *)

\* The settings recalc reads from the form (f holds the inputs' texts).
readSettings(f) ==
    [voltage |-> Plus(f.voltage),
     chemistry |-> f.chemistry,
     dod |-> clamp(num(f.dod), N(10), N(99)),
     reserve |-> clamp(num(f.reserve), N(0), N(100)),
     days |-> MathMax(N(1), MathRound(OrElse(num(f.days), N(1)))),
     invEff |-> clamp(num(f.invEff), N(50), N(100)),
     invStandby |-> MathMax(N(0), OrElse(num(f.invStandby), N(0))),
     derate |-> clamp(num(f.derate), N(0), N(80))]

rowDuty(r) == RDiv(OrElse(Get(r, "duty"), N(0)), N(100))
rowQty(r) == OrElse(Get(r, "qty"), N(0))
rowWhA(s, r) == rowWh(s, r, Get(r, "hAnchor"), rowDuty(r), rowQty(r))
rowWhS(s, r) == rowWh(s, r, Get(r, "hSail"), rowDuty(r), rowQty(r))

\* acHours adding the AC rows' hours up instead of taking the largest.
acHours_sum(acc, r, hours) ==
    IF Get(r, "type") = "AC" THEN RAdd(acc, OrElse(hours, N(0))) ELSE acc

\* if (r.type === "AC") acc = Math.max(acc, hours || 0)
acHours(acc, r, hours) ==
    IF Get(r, "type") = "AC" THEN MathMax(acc, OrElse(hours, N(0))) ELSE acc

\* The loop over state.rows: the four accumulators after the first n rows.
RECURSIVE loadsLoop(_, _, _)
loadsLoop(s, rws, n) ==
    IF n = 0
    THEN [anchorWh |-> N(0), sailWh |-> N(0),
          acAnchorHours |-> N(0), acSailHours |-> N(0)]
    ELSE LET acc == loadsLoop(s, rws, n - 1)
             r == rws[n]
         IN  [anchorWh |-> RAdd(acc.anchorWh, rowWhA(s, r)),
              sailWh |-> RAdd(acc.sailWh, rowWhS(s, r)),
              acAnchorHours |-> acHours(acc.acAnchorHours, r, Get(r, "hAnchor")),
              acSailHours |-> acHours(acc.acSailHours, r, Get(r, "hSail"))]

\* The loop over state.gen.
RECURSIVE genLoop(_, _, _)
genLoop(gn, v, n) ==
    IF n = 0 THEN N(0) ELSE RAdd(genLoop(gn, v, n - 1), genEntryWh(gn[n], v))

\* The class recalc puts on the net KPI.
netStatus(netWh, netAh, v, um) ==
    LET netMetric == IF um = "Wh" THEN netWh ELSE netAh
        threshold == IF um = "Wh" THEN N(200) ELSE RDiv(N(200), v)
    IN  IF RGt(netMetric, N(0)) THEN "ok"
        ELSE IF RLt(MathAbs(netMetric), threshold) THEN "warn"
        ELSE "bad"

\* tripOf that sizes for a single day.
tripOf_oneDay(dayTotal, days) == dayTotal

\* tripWh = whDayTotal * days, tripAh = ahDayTotal * days
tripOf(dayTotal, days) == RMul(dayTotal, days)

withReserveOf(tripAh, s) == RMul(tripAh, RAdd(N(1), RDiv(s.reserve, N(100))))

nameplateOf(withReserveAh, s) ==
    LET usableDoD == RDiv(s.dod, N(100))
        nameplateAh == RDiv(withReserveAh, usableDoD)
    IN  IF RGt(s.derate, N(0))
        THEN RDiv(nameplateAh, RSub(N(1), RDiv(s.derate, N(100))))
        ELSE nameplateAh

modulesOf(nameplateAh) == MathMax(N(1), MathCeil(RDiv(nameplateAh, N(100))))

\* The per-day figures: L holds the accumulators of the loop over the rows,
\* genWhDay the sum of the loop over the sources.
dayTotals(s, L, genWhDay) ==
    LET standbyWhDay == RMul(s.invStandby, RAdd(L.acAnchorHours, L.acSailHours))
        whDayTotal == RAdd(RAdd(L.anchorWh, L.sailWh), standbyWhDay)
    IN  [anchorWh |-> L.anchorWh,
         sailWh |-> L.sailWh,
         standbyWhDay |-> standbyWhDay,
         whDayTotal |-> whDayTotal,
         ahDayTotal |-> RDiv(whDayTotal, s.voltage),
         genWhDay |-> genWhDay,
         genAhDay |-> RDiv(genWhDay, s.voltage)]

\* Net and trip.
netAndTrip(s, d) ==
    [netWh |-> RSub(d.genWhDay, d.whDayTotal),
     netAh |-> RSub(d.genAhDay, d.ahDayTotal),
     tripWh |-> tripOf(d.whDayTotal, s.days),
     tripAh |-> tripOf(d.ahDayTotal, s.days)]

\* Bank sizing from the trip's amp-hours.
bankFromReserve(s, withReserveAh) ==
    [withReserveAh |-> withReserveAh,
     withReserveWh |-> RMul(withReserveAh, s.voltage)]

bankFromNameplate(s, nameplateAh) ==
    [nameplateAh |-> nameplateAh,
     nameplateWh |-> RMul(nameplateAh, s.voltage),
     modules100 |-> modulesOf(nameplateAh)]

sizing(s, tripAh) ==
    Assign(bankFromReserve(s, withReserveOf(tripAh, s)),
           bankFromNameplate(s, nameplateOf(withReserveOf(tripAh, s), s)))

totalsFrom(s, um, d, t) ==
    Assign(Assign(d, t),
           Assign(sizing(s, t.tripAh),
                  [status |-> netStatus(t.netWh, t.netAh, s.voltage, um)]))

totalsOfDay(s, um, d) == totalsFrom(s, um, d, netAndTrip(s, d))

\* Everything recalc derives from the settings s, the rows, the sources and
\* the unit mode.
Totals(s, rws, gn, um) ==
    totalsOfDay(s, um,
                dayTotals(s, loadsLoop(s, rws, Len(rws)),
                          genLoop(gn, s.voltage, Len(gn))))

-----------------------------------------------------------------------------
(* JSON.stringify: a number that is not finite is written as null *)

JsonNum(x) == IF IsFinite(x) THEN x ELSE NoVal

JsonObj(o) ==
    [k \in DOMAIN o |->
        IF k \in StrFields \cup {"id"} THEN o[k] ELSE JsonNum(o[k])]

RECURSIVE JsonListTo(_, _)
JsonListTo(xs, n) ==
    IF n = 0 THEN <<>> ELSE Append(JsonListTo(xs, n - 1), JsonObj(xs[n]))

JsonList(xs) == JsonListTo(xs, Len(xs))

\* The autosave object of recalc, as stored.
autosaveJson(s, rws, gn) ==
    [settings |-> JsonObj(s), rows |-> JsonList(rws), gen |-> JsonList(gn)]

\* JSON.stringify(state), as stored by Save Scenario.
stateJson(m) ==
    [settings |-> JsonObj(m.settings), rows |-> JsonList(m.rows),
     gen |-> JsonList(m.gen), editId |-> m.editId]

\* The texts the page's markup gives the settings inputs the script does not
\* set itself.
htmlDefaults ==
    [reserve |-> ToText(DEFAULTS.reserve), days |-> ToText(DEFAULTS.days),
     invEff |-> ToText(DEFAULTS.invEff),
     invStandby |-> ToText(DEFAULTS.invStandby),
     derate |-> ToText(DEFAULTS.derate)]

\* localStorage.getItem of a key that was never set (or was removed).
Absent == [absent |-> TRUE]

\* A stored text that JSON.parse rejects.
Garbled == [garbled |-> TRUE]

-----------------------------------------------------------------------------
(* The handlers, as functions of the in-memory state m *)

NoId == 0

\* Array.from({ length: d }, () => x)
RECURSIVE Repeat(_, _)
Repeat(x, d) == IF d <= 0 THEN <<>> ELSE Append(Repeat(x, d - 1), x)

\* Array.from({ length: d }, (_, i) => `Day ${i + 1}`): day i stands for
\* the label "Day i".
RECURSIVE dayLabels(_)
dayLabels(d) == IF d <= 0 THEN <<>> ELSE Append(dayLabels(d - 1), d)

\* state.gen.map(...): one contributor per source.
RECURSIVE genBreakdown(_, _, _, _)
genBreakdown(gn, v, d, n) ==
    IF n = 0 THEN <<>>
    ELSE Append(genBreakdown(gn, v, d, n - 1),
                [label |-> IF Get(gn[n], "name") # "" THEN Get(gn[n], "name")
                           ELSE IF Get(gn[n], "type") # "" THEN Get(gn[n], "type")
                           ELSE "Source",
                 series |-> Repeat(genEntryWh(gn[n], v), d)])

\* state.rows.map(...): one contributor per row, anchor + sail.
RECURSIVE rowBreakdown(_, _, _, _)
rowBreakdown(s, rws, d, n) ==
    IF n = 0 THEN <<>>
    ELSE Append(rowBreakdown(s, rws, d, n - 1),
                [label |-> IF Get(rws[n], "name") # "" THEN Get(rws[n], "name")
                           ELSE "Load",
                 series |-> Repeat(RAdd(rowWhA(s, rws[n]), rowWhS(s, rws[n])), d)])

\* useBreakdown without the inverter's standby contributor.
useBreakdown_rowsOnly(s, rws, d, standbyWhDay) ==
    rowBreakdown(s, rws, d, Len(rws))

useBreakdown(s, rws, d, standbyWhDay) ==
    IF RGt(standbyWhDay, N(0))
    THEN Append(rowBreakdown(s, rws, d, Len(rws)),
                [label |-> "Inverter standby", series |-> Repeat(standbyWhDay, d)])
    ELSE rowBreakdown(s, rws, d, Len(rws))

\* The object recalc hands to window.renderReports; t holds the totals.
reportsModel(s, rws, gn, t, d) ==
    [labels |-> dayLabels(d),
     generationWh |-> Repeat(t.genWhDay, d),
     consumptionWh |-> Repeat(t.whDayTotal, d),
     systemVoltage |-> s.voltage,
     genBreakdown |-> genBreakdown(gn, s.voltage, d, Len(gn)),
     useBreakdown |-> useBreakdown(s, rws, d, t.standbyWhDay),
     majorThreshold |-> Q(1, 10)]

\* recalc building the reports model from the settings of the call before.
recalcShow_stale(m, s, t) ==
    [m EXCEPT !.settings = s,
              !.kpi = t,
              !.autosave = autosaveJson(s, m.rows, m.gen),
              !.reports = reportsModel(m.settings, m.rows, m.gen, t,
                                       m.settings.days[1])]

\* recalc from the KPI texts on, t holding the totals.
recalcShow(m, s, t) ==
    [m EXCEPT !.settings = s,
              !.kpi = t,
              !.autosave = autosaveJson(s, m.rows, m.gen),
              !.reports = reportsModel(s, m.rows, m.gen, t, s.days[1])]

\* recalc once state.settings = s has been read from the form.
recalcWith(m, s) == recalcShow(m, s, Totals(s, m.rows, m.gen, m.unitMode))

recalc(m) == recalcWith(m, readSettings(m.form))

\* addRow that keeps the row as it is given.
addRow_asGiven(m, row) ==
    recalc([m EXCEPT !.rows = Append(@, row)])

addRow(m, row) ==
    recalc([m EXCEPT !.rows = Append(@, Assign(NewLoad, row))])

\* The inputs addRow renders for row r: number inputs hold the value's text,
\* a select shows its first option when no option matches.
rowInputs(r) ==
    [name |-> Get(r, "name"),
     category |-> IF \E i \in 1..Len(CATS) : CATS[i] = Get(r, "category")
                  THEN Get(r, "category") ELSE CATS[1],
     type |-> IF Get(r, "type") = "AC" THEN "AC" ELSE "DC",
     entry |-> IF Get(r, "entry") = "A" THEN "A" ELSE "W",
     value |-> ToText(Get(r, "value")),
     hAnchor |-> ToText(Get(r, "hAnchor")),
     hSail |-> ToText(Get(r, "hSail")),
     duty |-> ToText(Get(r, "duty")),
     qty |-> ToText(Get(r, "qty"))]

\* sync: the row written back from its inputs d.
syncRow(d) ==
    [name |-> d.name,
     category |-> d.category,
     type |-> d.type,
     entry |-> d.entry,
     value |-> num(d.value),
     hAnchor |-> num(d.hAnchor),
     hSail |-> num(d.hSail),
     duty |-> clamp(num(d.duty), N(0), N(100)),
     qty |-> MathMax(N(0), OrElse(MathRound(num(d.qty)), N(0)))]

\* An input event on field k of row i, the input now holding text t.
sync(m, i, k, t) ==
    recalc([m EXCEPT !.rows[i] = syncRow([rowInputs(m.rows[i]) EXCEPT ![k] = t])])

RemoveAt(xs, i) == SubSeq(xs, 1, i - 1) \o SubSeq(xs, i + 1, Len(xs))

delRow(m, i) == recalc([m EXCEPT !.rows = RemoveAt(@, i)])

-----------------------------------------------------------------------------
(* Generation sources *)

clearGenForm(m) == [m EXCEPT !.editId = NoId]

\* state.editId ?? newId(): newId() is drawn only when nothing is edited.
formId(m) == IF m.editId # NoId THEN m.editId ELSE m.nextId
afterFormId(m) == IF m.editId # NoId THEN m ELSE [m EXCEPT !.nextId = @ + 1]

onAddGen(m, raw) ==
    LET entry == readGenForm(raw, formId(m))
        m1 == afterFormId(m)
    IN  recalc(clearGenForm([m1 EXCEPT !.gen = Append(@, entry)]))

findIndex(gn, id) ==
    IF \E i \in 1..Len(gn) : Get(gn[i], "id") = id
    THEN CHOOSE i \in 1..Len(gn) :
             /\ Get(gn[i], "id") = id
             /\ \A j \in 1..(i - 1) : Get(gn[j], "id") # id
    ELSE 0

\* Update as an upsert: an entry that is no longer in the list is added back.
onUpdateGen_upsert(m, raw) ==
    LET entry == readGenForm(raw, formId(m))
        m1 == afterFormId(m)
        idx == findIndex(m1.gen, entry.id)
    IN  recalc(clearGenForm(IF idx > 0 THEN [m1 EXCEPT !.gen[idx] = entry]
                                       ELSE [m1 EXCEPT !.gen = Append(@, entry)]))

onUpdateGen(m, raw) ==
    LET entry == readGenForm(raw, formId(m))
        m1 == afterFormId(m)
        idx == findIndex(m1.gen, entry.id)
    IN  recalc(clearGenForm(IF idx > 0 THEN [m1 EXCEPT !.gen[idx] = entry] ELSE m1))

editGen(m, id) ==
    IF findIndex(m.gen, id) = 0 THEN m ELSE [m EXCEPT !.editId = id]

delGen(m, id) ==
    LET keep(x) == Get(x, "id") # id
    IN  recalc([m EXCEPT !.gen = SelectSeq(@, keep)])

\* The form as resetAll and the start-up code fill it before onAddGen().
defaultSolarForm ==
    [type |-> "Solar", name |-> "Solar: 200 W x 2", panelW |-> N(200),
     panels |-> N(2), sun |-> Q(9, 2), derate |-> N(15), ctrl |-> N(96),
     hours |-> Q(9, 2), qty |-> N(1)]

-----------------------------------------------------------------------------
(* seedDefaults, loadState, start-up, Reset All *)

wanted ==
    << "Anchor Light (LED)", "Running/Nav Lights (LED set)", "Chartplotter/MFD",
       "Depth/Wind (avg)", "Cabin Fan", "Stereo (avg listening)",
       "Laptop (USB-PD 35 W)" >>

libFind(n) ==
    IF \E i \in 1..Len(LIB) : LIB[i].name = n
    THEN CHOOSE i \in 1..Len(LIB) :
             LIB[i].name = n /\ \A j \in 1..(i - 1) : LIB[j].name # n
    ELSE 0

\* The loop that adds every wanted row, present or not.
RECURSIVE seedLoop_always(_, _, _)
seedLoop_always(m, existing, k) ==
    IF k = 0 THEN m
    ELSE addRow(seedLoop_always(m, existing, k - 1), LIB[libFind(wanted[k])])

\* seedDefaults after its first k wanted names; existing is the set of row
\* names taken before the loop.
RECURSIVE seedLoop(_, _, _)
seedLoop(m, existing, k) ==
    IF k = 0 THEN m
    ELSE LET m1 == seedLoop(m, existing, k - 1)
             n == wanted[k]
         IN  IF n \notin existing /\ libFind(n) # 0
             THEN addRow(m1, LIB[libFind(n)])
             ELSE m1

seedDefaults(m) ==
    seedLoop(m, {Get(m.rows[i], "name") : i \in 1..Len(m.rows)}, Len(wanted))

\* What a <select> holds after .value = v: v when it is one of the options,
\* nothing selected otherwise.
selectValue(v, options) == IF v \in options THEN v ELSE ""

\* (data.rows || []).forEach((r) => addRow(r)), after the first n rows.
RECURSIVE addRows(_, _, _)
addRows(m, rs, n) ==
    IF n = 0 THEN m ELSE addRow(addRows(m, rs, n - 1), rs[n])

\* A snapshot whose rows (or gen) is something truthy that is no array is
\* written with the marker rowsNotArray (genNotArray) in place of the list.
loadState(m, data) ==
    IF "settings" \notin DOMAIN data
    THEN m    \* data.settings.voltage throws; the catch only logs
    ELSE
    LET ds == data.settings
        chem == selectValue(IF Get(ds, "chemistry") = "" THEN "LFP"
                            ELSE Get(ds, "chemistry"), Chems)
        f == [voltage |-> ToText(OrElse(Get(ds, "voltage"), N(12))),
              chemistry |-> chem,
              dod |-> ToText(Coalesce(Get(ds, "dod"),
                                      IF chem \in Chems THEN dodByChem[chem]
                                      ELSE NoVal)),
              reserve |-> ToText(Coalesce(Get(ds, "reserve"), N(20))),
              days |-> ToText(Coalesce(Get(ds, "days"), N(2))),
              invEff |-> ToText(Coalesce(Get(ds, "invEff"), N(90))),
              invStandby |-> ToText(Coalesce(Get(ds, "invStandby"), N(6))),
              derate |-> ToText(Coalesce(Get(ds, "derate"), N(0)))]
        m1 == [m EXCEPT !.form = f, !.rows = <<>>]
        dataRows == IF "rows" \in DOMAIN data THEN data.rows ELSE <<>>
        m2 == addRows(m1, dataRows, Len(dataRows))
        dataGen == IF "gen" \in DOMAIN data THEN data.gen ELSE <<>>
    IN  IF "rowsNotArray" \in DOMAIN data
        THEN m1    \* data.rows.forEach throws; the catch only logs
        ELSE IF "genNotArray" \in DOMAIN data
        THEN [m2 EXCEPT !.gen = <<>>]    \* data.gen.forEach throws
        ELSE [m2 EXCEPT !.gen = dataGen, !.unitMode = "Ah"]

\* Load Scenario with nothing said when the text does not parse.
loadScenario_silent(m) ==
    IF m.scenario = Absent
    THEN [m EXCEPT !.toast = "No saved scenario found."]
    ELSE IF m.scenario = Garbled
    THEN m
    ELSE [loadState(m, m.scenario) EXCEPT !.toast = "Scenario loaded."]

\* The Load Scenario handler.
loadScenario(m) ==
    IF m.scenario = Absent
    THEN [m EXCEPT !.toast = "No saved scenario found."]
    ELSE IF m.scenario = Garbled
    THEN [m EXCEPT !.toast = "Failed to load scenario."]
    ELSE [loadState(m, m.scenario) EXCEPT !.toast = "Scenario loaded."]

\* The page as the script has built it before its start-up code runs, with
\* what localStorage holds.
construct(scen, auto, nid) ==
    [settings |-> DEFAULTS,
     rows |-> <<>>,
     gen |-> <<>>,
     editId |-> NoId,
     unitMode |-> "Ah",
     manualDodChange |-> FALSE,
     form |-> [voltage |-> ToText(DEFAULTS.voltage),
               chemistry |-> DEFAULTS.chemistry,
               dod |-> ToText(dodByChem[DEFAULTS.chemistry]),
               reserve |-> htmlDefaults.reserve,
               days |-> htmlDefaults.days,
               invEff |-> htmlDefaults.invEff,
               invStandby |-> htmlDefaults.invStandby,
               derate |-> htmlDefaults.derate],
     kpi |-> [shown |-> FALSE],
     reports |-> [shown |-> FALSE],
     toast |-> "",
     scenario |-> scen,
     autosave |-> auto,
     nextId |-> nid]

\* The start-up code at the end of the script.
startup(m) ==
    IF m.autosave # Absent /\ m.autosave # Garbled
    THEN recalc(loadState(m, m.autosave))
    ELSE recalc(onAddGen(seedDefaults(m), defaultSolarForm))

\* Reset All that does not empty state.gen before adding the Solar entry.
resetAll_keepGen(m) ==
    LET m1 == seedDefaults([m EXCEPT !.autosave = Absent, !.rows = <<>>])
        m2 == onAddGen(m1, defaultSolarForm)
    IN  recalc([m2 EXCEPT
                   !.form = [voltage |-> N(12), chemistry |-> "LFP",
                             dod |-> ToText(dodByChem["LFP"]),
                             reserve |-> N(20), days |-> N(2),
                             invEff |-> N(90), invStandby |-> N(6),
                             derate |-> N(0)],
                   !.unitMode = "Ah"])

\* The Reset All handler once the user has confirmed.
resetAll(m) ==
    LET m1 == seedDefaults([m EXCEPT !.autosave = Absent, !.rows = <<>>,
                                      !.gen = <<>>])
        m2 == onAddGen(m1, defaultSolarForm)
    IN  recalc([m2 EXCEPT
                   !.form = [voltage |-> N(12), chemistry |-> "LFP",
                             dod |-> ToText(dodByChem["LFP"]),
                             reserve |-> N(20), days |-> N(2),
                             invEff |-> N(90), invStandby |-> N(6),
                             derate |-> N(0)],
                   !.unitMode = "Ah"])

-----------------------------------------------------------------------------
(* Bounds and the inputs the user is given *)

\* User events handled in one session.
MaxOps == 2

\* Library entries offered to "Add from library": a DC load entered in amps.
LibPicks == {5}

\* Texts typed into a row's number inputs.
RowNumberEdits ==
    [value |-> {N(-5)},
     hAnchor |-> {N(-3)},
     qty |-> {N(0)}]

RowSelectEdits == [type |-> {"AC"}, entry |-> {"A"}]

\* Texts typed into the settings' number inputs (NoVal: the input emptied).
SettingEdits ==
    [voltage |-> {NoVal},
     days |-> {N(3)},
     invStandby |-> {N(-1)}]

DodEdits == {N(70)}

\* Contents of the source form when Add or Update is clicked.
GenForms ==
    { [type |-> "Solar", name |-> "", panelW |-> N(-200), panels |-> N(2),
       sun |-> Q(9, 2), derate |-> N(15), ctrl |-> N(96), hours |-> Q(9, 2),
       qty |-> N(1)],
      [type |-> "Wind", name |-> "", rated |-> N(400), cf |-> N(20),
       hours |-> N(24), qty |-> N(1)] }

\* Models an earlier session can have left in localStorage.
emptyForm ==
    [voltage |-> N(12), chemistry |-> "LFP", dod |-> N(88), reserve |-> N(20),
     days |-> N(2), invEff |-> N(90), invStandby |-> N(6), derate |-> N(0)]

boatForm ==
    [voltage |-> N(24), chemistry |-> "AGM", dod |-> N(50), reserve |-> N(10),
     days |-> N(3), invEff |-> N(80), invStandby |-> N(6), derate |-> N(20)]

boatRows == <<LIB[10], LIB[12]>>

boatGen ==
    << readGenForm([type |-> "Alternator", name |-> "", amps |-> N(40),
                    hours |-> N(2), qty |-> N(1)], 1) >>

emptyStored == autosaveJson(readSettings(emptyForm), <<>>, <<>>)

boatStored == autosaveJson(readSettings(boatForm), boatRows, boatGen)

\* What localStorage holds when the page is opened: nothing (a first visit),
\* or an autosave and a saved scenario written by an earlier session.
InitStorage ==
    { [scenario |-> Absent, autosave |-> Absent],
      [scenario |-> Assign(boatStored, [editId |-> NoId]),
       autosave |-> emptyStored],
      [scenario |-> Assign(emptyStored, [editId |-> NoId]),
       autosave |-> boatStored] }

\* The rows the user edits or deletes: the last two of the table.
RowPicks == {i \in 1..Len(rows) : i + 2 > Len(rows)}

-----------------------------------------------------------------------------
(* The state machine *)

\* The in-memory state and localStorage as one record.
Cur ==
    [settings |-> settings, rows |-> rows, gen |-> gen, editId |-> editId,
     unitMode |-> unitMode, manualDodChange |-> manualDodChange, form |-> form,
     kpi |-> kpi, scenario |-> scenario, autosave |-> autosave,
     reports |-> reports, toast |-> toast, nextId |-> nextId]

Becomes(m) ==
    \E x \in {m} :
        /\ settings' = x.settings
        /\ rows' = x.rows
        /\ gen' = x.gen
        /\ editId' = x.editId
        /\ unitMode' = x.unitMode
        /\ manualDodChange' = x.manualDodChange
        /\ form' = x.form
        /\ kpi' = x.kpi
        /\ scenario' = x.scenario
        /\ autosave' = x.autosave
        /\ reports' = x.reports
        /\ toast' = x.toast
        /\ nextId' = x.nextId

Handled(op, m) ==
    /\ nOps < MaxOps
    /\ Becomes(m)
    /\ lastOp' = op
    /\ nOps' = nOps + 1
    /\ UNCHANGED <<call, ret>>

NoCall == [fn |-> "none"]

\* The state the page is in once the script has run to its end.
Started(m) ==
    /\ settings = m.settings
    /\ rows = m.rows
    /\ gen = m.gen
    /\ editId = m.editId
    /\ unitMode = m.unitMode
    /\ manualDodChange = m.manualDodChange
    /\ form = m.form
    /\ kpi = m.kpi
    /\ scenario = m.scenario
    /\ autosave = m.autosave
    /\ reports = m.reports
    /\ toast = m.toast
    /\ nextId = m.nextId
    /\ lastOp = "startup"
    /\ nOps = 0
    /\ call = NoCall
    /\ ret = NoVal

Init ==
    \E st \in InitStorage :
        Started(startup(construct(st.scenario, st.autosave, 3)))

\* "Add load" and "Add from library".
AddRowClick == Handled("addRow", addRow(Cur, <<>>))

AddFromLib == \E i \in LibPicks : Handled("addRow", addRow(Cur, LIB[i]))

\* An input event on one of a row's inputs.
RowNumberInput ==
    \E i \in RowPicks, k \in DOMAIN RowNumberEdits :
        \E t \in RowNumberEdits[k] : Handled("sync", sync(Cur, i, k, t))

RowSelectInput ==
    \E i \in RowPicks, k \in DOMAIN RowSelectEdits :
        \E t \in RowSelectEdits[k] : Handled("sync", sync(Cur, i, k, t))

DeleteRow == \E i \in RowPicks : Handled("delRow", delRow(Cur, i))

\* An input event on voltage, reserve, days, invEff, invStandby or derate.
SettingInput ==
    \E k \in DOMAIN SettingEdits :
        \E t \in SettingEdits[k] :
            Handled("settingInput", recalc([Cur EXCEPT !.form[k] = t]))

DodInput ==
    \E t \in DodEdits :
        Handled("dodInput",
                recalc([Cur EXCEPT !.manualDodChange = TRUE, !.form.dod = t]))

ChemistryChange ==
    \E c \in Chems \ {form.chemistry} :
        Handled("chemistryChange",
                recalc([Cur EXCEPT
                    !.form.chemistry = c,
                    !.form.dod = IF manualDodChange THEN @
                                 ELSE ToText(OrElse(dodByChem[c], N(80)))]))

UnitModeChange ==
    \E u \in {"Wh", "Ah"} \ {unitMode} :
        Handled("unitModeChange", recalc([Cur EXCEPT !.unitMode = u]))

\* The Add button is shown only while no source is being edited, Update and
\* Cancel only while one is.
AddGenClick ==
    /\ editId = NoId
    /\ \E raw \in GenForms : Handled("onAddGen", onAddGen(Cur, raw))

UpdateGenClick ==
    /\ editId # NoId
    /\ \E raw \in GenForms : Handled("onUpdateGen", onUpdateGen(Cur, raw))

CancelGenClick ==
    /\ editId # NoId
    /\ Handled("clearGenForm", clearGenForm(Cur))

EditGenClick ==
    \E i \in 1..Len(gen) : Handled("editGen", editGen(Cur, Get(gen[i], "id")))

DelGenClick ==
    \E i \in 1..Len(gen) : Handled("delGen", delGen(Cur, Get(gen[i], "id")))

SaveScenario ==
    Handled("saveScenario",
            [Cur EXCEPT !.scenario = stateJson(Cur),
                        !.toast = "Scenario saved to this browser."])

LoadScenario == Handled("loadScenario", loadScenario(Cur))

ResetAll == Handled("resetAll", resetAll(Cur))

\* The page is loaded again: memory is rebuilt, localStorage is kept.
Reload == Handled("startup", startup(construct(scenario, autosave, nextId)))

Next ==
    \/ AddRowClick
    \/ AddFromLib
    \/ RowNumberInput
    \/ RowSelectInput
    \/ DeleteRow
    \/ SettingInput
    \/ DodInput
    \/ ChemistryChange
    \/ UnitModeChange
    \/ AddGenClick
    \/ UpdateGenClick
    \/ CancelGenClick
    \/ EditGenClick
    \/ DelGenClick
    \/ SaveScenario
    \/ LoadScenario
    \/ ResetAll
    \/ Reload

Spec == Init /\ [][Next]_vars

-----------------------------------------------------------------------------
(* recalc on a drawn model: the table, the sources and the form as a handler
   leaves them when it calls recalc() *)

\* Rows in the table.
MaxRows == 2

\* Rows as the library gives them or as sync writes them.
RowSamples ==
    { LIB[1], LIB[5], LIB[12], NewLoad,
      syncRow([name |-> "Windlass", category |-> "Misc", type |-> "DC",
               entry |-> "A", value |-> N(5), hAnchor |-> N(8), hSail |-> N(4),
               duty |-> N(0), qty |-> N(1)]),
      syncRow([name |-> "Inverter load", category |-> "Misc", type |-> "AC",
               entry |-> "A", value |-> N(3), hAnchor |-> N(2), hSail |-> N(4),
               duty |-> N(50), qty |-> N(2)]),
      syncRow([name |-> "Spare heater", category |-> "Comfort", type |-> "AC",
               entry |-> "W", value |-> N(65), hAnchor |-> N(8), hSail |-> N(1),
               duty |-> N(100), qty |-> N(0)]),
      syncRow([name |-> "Mistyped", category |-> "Misc", type |-> "DC",
               entry |-> "W", value |-> N(-5), hAnchor |-> N(8), hSail |-> NoVal,
               duty |-> N(150), qty |-> Q(3, 2)]),
      syncRow([name |-> "Kettle", category |-> "Galley", type |-> "AC",
               entry |-> "W", value |-> N(900), hAnchor |-> N(-3),
               hSail |-> N(0), duty |-> N(100), qty |-> N(1)]) }

RECURSIVE SeqsUpTo(_, _)
SeqsUpTo(S, n) ==
    IF n = 0 THEN {<<>>}
    ELSE LET shorter == SeqsUpTo(S, n - 1)
         IN  shorter \cup {Append(q, x) : q \in shorter, x \in S}

sourceOf(raw, id) == readGenForm(raw, id)

GenLists ==
    { <<>>,
      <<sourceOf(defaultSolarForm, 1)>>,
      <<sourceOf(defaultSolarForm, 1),
        sourceOf([type |-> "Alternator", name |-> "", amps |-> N(40),
                  hours |-> N(2), qty |-> N(1)], 2)>>,
      <<sourceOf([type |-> "Wind", name |-> "", rated |-> N(400), cf |-> N(20),
                  hours |-> N(24), qty |-> N(1)], 1),
        sourceOf([type |-> "AC Charger", name |-> "Shore", amps |-> N(30),
                  eff |-> N(92), hours |-> N(4), qty |-> N(2)], 2)>> }

\* A form whose texts are all outside the ranges recalc accepts.
rawForm ==
    [voltage |-> NoVal, chemistry |-> "GEL", dod |-> N(5), reserve |-> N(150),
     days |-> N(0), invEff |-> N(40), invStandby |-> N(-1), derate |-> N(90)]

FormSamples == {emptyForm, boatForm, rawForm}

InitTotals ==
    \E rws \in SeqsUpTo(RowSamples, MaxRows), gn \in GenLists,
       f \in FormSamples, um \in {"Ah", "Wh"} :
        LET m == construct(Absent, Absent, 3)
        IN  /\ settings = m.settings
            /\ rows = rws
            /\ gen = gn
            /\ editId = NoId
            /\ unitMode = um
            /\ manualDodChange = FALSE
            /\ form = f
            /\ kpi = m.kpi
            /\ scenario = Absent
            /\ autosave = Absent
            /\ reports = [shown |-> FALSE]
            /\ toast = ""
            /\ nextId = 3
            /\ lastOp = "call"
            /\ nOps = 0
            /\ call = [fn |-> "recalc"]
            /\ ret = NoVal

RecalcCall ==
    /\ call.fn = "recalc"
    /\ lastOp = "call"
    /\ Becomes(recalc(Cur))
    /\ lastOp' = "recalc"
    /\ UNCHANGED <<nOps, call, ret>>

NextTotals == RecalcCall

SpecTotals == InitTotals /\ [][NextTotals]_vars

\* recalc() once more, nothing having been edited since the call before.
RecalcAgain ==
    /\ call.fn = "recalc"
    /\ lastOp = "recalc"
    /\ nOps = 0
    /\ Becomes(recalc(Cur))
    /\ nOps' = 1
    /\ UNCHANGED <<lastOp, call, ret>>

NextTwice == RecalcCall \/ RecalcAgain

SpecTwice == InitTotals /\ [][NextTwice]_vars

-----------------------------------------------------------------------------
(* rowWh on drawn arguments *)

RowWhArgs ==
    [s : {readSettings(emptyForm), readSettings(boatForm)},
     type : {"DC", "AC", "XX"},
     entry : {"W", "A", "kW"},
     value : {N(2), N(-5), NoVal},
     hours : {N(8), Q(17, 100), N(0), N(-3), NoVal},
     duty : {N(1), Q(35, 100), N(0), NoVal},
     qty : {N(2), N(0), N(-1), NoVal}]

InitRowWh ==
    \E a \in RowWhArgs :
        LET m == construct(Absent, Absent, 3)
        IN  /\ settings = a.s
            /\ rows = m.rows
            /\ gen = m.gen
            /\ editId = NoId
            /\ unitMode = m.unitMode
            /\ manualDodChange = FALSE
            /\ form = m.form
            /\ kpi = m.kpi
            /\ scenario = Absent
            /\ autosave = Absent
            /\ reports = [shown |-> FALSE]
            /\ toast = ""
            /\ nextId = 3
            /\ lastOp = "call"
            /\ nOps = 0
            /\ call = [fn |-> "rowWh",
                       r |-> [type |-> a.type, entry |-> a.entry,
                              value |-> a.value],
                       hours |-> a.hours, duty |-> a.duty, qty |-> a.qty]
            /\ ret = NoVal

RowWhCall ==
    /\ call.fn = "rowWh"
    /\ lastOp = "call"
    /\ ret' = rowWh(settings, call.r, call.hours, call.duty, call.qty)
    /\ lastOp' = "return"
    /\ UNCHANGED <<settings, rows, gen, editId, unitMode, manualDodChange, form,
                   kpi, scenario, autosave, reports, toast, nextId, nOps, call>>

NextRowWh == RowWhCall

SpecRowWh == InitRowWh /\ [][NextRowWh]_vars

-----------------------------------------------------------------------------
(* recalc on drawn settings texts *)

\* Texts a settings input can hold: empty, negative, fractional, in range,
\* far too large.
SettingTexts == {NoVal, N(-5), Q(5, 2), N(75), N(120)}

SettingForms ==
    [voltage : {N(12)}, chemistry : {"LFP"}, dod : SettingTexts,
     reserve : SettingTexts, days : SettingTexts, invEff : SettingTexts,
     invStandby : SettingTexts, derate : SettingTexts]

InitSettings ==
    \E f \in SettingForms :
        /\ settings = DEFAULTS
        /\ rows = <<>>
        /\ gen = <<>>
        /\ editId = NoId
        /\ unitMode = "Ah"
        /\ manualDodChange = FALSE
        /\ form = f
        /\ kpi = [shown |-> FALSE]
        /\ scenario = Absent
        /\ autosave = Absent
        /\ reports = [shown |-> FALSE]
        /\ toast = ""
        /\ nextId = 3
        /\ lastOp = "call"
        /\ nOps = 0
        /\ call = [fn |-> "recalc"]
        /\ ret = NoVal

NextSettings == RecalcCall

SpecSettings == InitSettings /\ [][NextSettings]_vars

-----------------------------------------------------------------------------
(* reports.js: state of charge *)

\* +x.toFixed(1): x to one decimal place, halves away from zero; NaN and the
\* infinities print and read back as themselves.
toFixed1(x0) ==
    LET x == ToNum(x0)
    IN  IF x[2] = 0 THEN x
        ELSE Q(Sgn(x[1]) * ((20 * Abs(x[1]) + x[2]) \div (2 * x[2])), 10)

\* xs[i] of a JavaScript array (i from 1 here): undefined past the end.
At(xs, i) == IF i \in 1..Len(xs) THEN xs[i] ELSE NoVal

\* The percentage that is pushed, without the clamp.
socPct_noClamp(level, bank) == RMul(RDiv(level, bank), N(100))

\* Math.max(0, Math.min(100, (level / bank) * 100))
socPct(level, bank) ==
    MathMax(N(0), MathMin(N(100), RMul(RDiv(level, bank), N(100))))

\* One turn of the loop once level += perDayNet[i] || 0 is done.
socPush(soc, level, bank) ==
    [level |-> level, soc |-> Append(soc, toFixed1(socPct(level, bank)))]

\* The loop of renderSoc up to day n.
RECURSIVE socLoop(_, _, _)
socLoop(bank, perDayNet, n) ==
    IF n = 0 THEN [level |-> bank, soc |-> <<>>]
    ELSE socPush(socLoop(bank, perDayNet, n - 1).soc,
                 RAdd(socLoop(bank, perDayNet, n - 1).level,
                      OrElse(At(perDayNet, n), N(0))),
                 bank)

\* The guard that takes any bank but 0 for a usable bank.
socUnavailable_zeroOnly(bank, isArray) == bank = N(0) \/ ~isArray

\* !(bank > 0) || !Array.isArray(perDayNet)
socUnavailable(bank, isArray) == ~RGt(bank, N(0)) \/ ~isArray

\* renderSoc, the #chartSoc canvas and its fallback being on the page: the
\* "SOC needs a usable bank value." note, or the series that is drawn.
\* isArray tells whether perDayNet is an array at all.
renderSoc(labels, bank, isArray, perDayNet) ==
    IF socUnavailable(bank, isArray)
    THEN [available |-> FALSE, soc |-> <<>>]
    ELSE [available |-> TRUE, soc |-> socLoop(bank, perDayNet, Len(labels)).soc]

\* The state in which a function is called directly with the arguments c.
Holds(m) ==
    /\ settings = m.settings
    /\ rows = m.rows
    /\ gen = m.gen
    /\ editId = m.editId
    /\ unitMode = m.unitMode
    /\ manualDodChange = m.manualDodChange
    /\ form = m.form
    /\ kpi = m.kpi
    /\ scenario = m.scenario
    /\ autosave = m.autosave
    /\ reports = m.reports
    /\ toast = m.toast
    /\ nextId = m.nextId

AtCall(c) ==
    /\ Holds(construct(Absent, Absent, 3))
    /\ lastOp = "call"
    /\ nOps = 0
    /\ call = c
    /\ ret = NoVal

Returns(v) ==
    /\ lastOp = "call"
    /\ ret' = v
    /\ lastOp' = "return"
    /\ UNCHANGED <<settings, rows, gen, editId, unitMode, manualDodChange, form,
                   kpi, scenario, autosave, reports, toast, nextId, nOps, call>>

MaxDays == 3

SocBanks == {NoVal, NaN, N(0), N(-100), N(3), N(1000), PosInf}
SocNets == {N(-200), N(500), N(-1), NaN, NegInf, PosInf}

InitSoc ==
    \E days \in 0..MaxDays, bank \in SocBanks, isArray \in BOOLEAN,
       perDayNet \in SeqsUpTo(SocNets, MaxDays) :
        /\ isArray \/ perDayNet = <<>>
        /\ AtCall([fn |-> "renderSoc", labels |-> dayLabels(days), bank |-> bank,
                   isArray |-> isArray, perDayNet |-> perDayNet])

RenderSocCall ==
    /\ call.fn = "renderSoc"
    /\ Returns(renderSoc(call.labels, call.bank, call.isArray, call.perDayNet))

NextSoc == RenderSocCall

SpecSoc == InitSoc /\ [][NextSoc]_vars

-----------------------------------------------------------------------------
(* reports.js: stacked breakdown *)

\* +v || 0
numOr0(v) == OrElse(v, N(0))

\* xs.reduce((s, v) => s + Math.abs(+v || 0), 0), over the first n entries
RECURSIVE sumAbs(_, _)
sumAbs(xs, n) ==
    IF n = 0 THEN N(0) ELSE RAdd(sumAbs(xs, n - 1), MathAbs(numOr0(xs[n])))

\* 1e-9
Tiny == Q(1, 1000000000)

\* Math.max(1e-9, x). A fraction n/d with n >= 1 and d < 10^9 is above 1e-9
\* and a fraction with n <= 0 is below it; neither product is formed.
maxTiny(x) ==
    IF IsFinite(x) /\ x[1] >= 1 /\ x[2] < 1000000000 THEN x
    ELSE IF IsFinite(x) /\ x[1] <= 0 THEN Tiny
    ELSE MathMax(Tiny, x)

totalMag(totals) == maxTiny(sumAbs(totals, Len(totals)))

\* breakdown.map(...): label, a copy of the series, and its magnitude; the
\* share mag / totalMag is formed where it is compared.
RECURSIVE withShare(_, _)
withShare(breakdown, n) ==
    IF n = 0 THEN <<>>
    ELSE Append(withShare(breakdown, n - 1),
                [label |-> breakdown[n].label,
                 series |-> breakdown[n].series,
                 mag |-> sumAbs(breakdown[n].series, Len(breakdown[n].series))])

\* With totalMag = 1e-9, a magnitude n/d > 0 with d <= 1000 has a share of at
\* least 10^6, which is above any threshold up to 1000.
hugeShare(mag, tm, thr) ==
    /\ tm = Tiny
    /\ IsFinite(mag) /\ mag[1] > 0 /\ mag[2] <= 1000
    /\ IsFinite(thr) /\ thr[1] <= 1000 * thr[2]

\* The major test that leaves out a share equal to the threshold.
shareAtLeast_strict(mag, tm, thr) ==
    hugeShare(mag, tm, thr) \/ RGt(RDiv(mag, tm), thr)

\* x.share >= majorThreshold
shareAtLeast(mag, tm, thr) ==
    hugeShare(mag, tm, thr) \/ RGe(RDiv(mag, tm), thr)

\* x.share < majorThreshold
shareBelow(mag, tm, thr) ==
    ~hugeShare(mag, tm, thr) /\ RLt(RDiv(mag, tm), thr)

majorsOf(ws, tm, thr) == SelectSeq(ws, LAMBDA x : shareAtLeast(x.mag, tm, thr))
minorsOf(ws, tm, thr) == SelectSeq(ws, LAMBDA x : shareBelow(x.mag, tm, thr))

\* agg[i] after the first n minors are added (i from 1 here)
RECURSIVE aggAt(_, _, _)
aggAt(minors, i, n) ==
    IF n = 0 THEN N(0)
    ELSE RAdd(aggAt(minors, i, n - 1), numOr0(At(minors[n].series, i)))

\* The fold that keeps only the first minor.
RECURSIVE aggSeries_firstOnly(_, _)
aggSeries_firstOnly(minors, L) ==
    IF L = 0 THEN <<>>
    ELSE Append(aggSeries_firstOnly(minors, L - 1), aggAt(minors, L, 1))

\* agg, of length L = totals.length
RECURSIVE aggSeries(_, _)
aggSeries(minors, L) ==
    IF L = 0 THEN <<>>
    ELSE Append(aggSeries(minors, L - 1), aggAt(minors, L, Len(minors)))

\* other ? [...majors, other] : majors
combinedOf(majors, minors, L) ==
    IF Len(minors) > 0
    THEN Append(majors, [label |-> "Other", series |-> aggSeries(minors, L)])
    ELSE majors

\* c.series.map((v) => (positive ? (+v || 0) : -Math.abs(+v || 0)))
RECURSIVE signed(_, _, _)
signed(series, positive, n) ==
    IF n = 0 THEN <<>>
    ELSE Append(signed(series, positive, n - 1),
                IF positive THEN numOr0(series[n])
                ELSE RNeg(MathAbs(numOr0(series[n]))))

\* combined.map(...): the label and data of each dataset (the tooltip texts
\* rawPct and the styling are left out).
RECURSIVE datasetsOf(_, _, _)
datasetsOf(combined, positive, n) ==
    IF n = 0 THEN <<>>
    ELSE Append(datasetsOf(combined, positive, n - 1),
                [label |-> combined[n].label,
                 data |-> signed(combined[n].series, positive,
                                 Len(combined[n].series))])

stackedFrom(ws, tm, L, positive, thr) ==
    datasetsOf(combinedOf(majorsOf(ws, tm, thr), minorsOf(ws, tm, thr), L),
               positive,
               Len(combinedOf(majorsOf(ws, tm, thr), minorsOf(ws, tm, thr), L)))

buildStackedDatasets(breakdown, totals, positive, majorThreshold) ==
    stackedFrom(withShare(breakdown, Len(breakdown)), totalMag(totals),
                Len(totals), positive, majorThreshold)

MaxItems == 3

ItemLabels == <<"Solar", "Wind", "Alternator", "Charger", "Shore">>

\* A value held on every day, or a value on the first day only.
StackSeries(L) ==
    {Repeat(v, L) : v \in {N(0), N(1), N(4), N(-2)}}
        \cup {<<v>> \o Repeat(N(0), L - 1) : v \in {N(1), N(4)}}

Thresholds == {N(0), Q(1, 10), Q(1, 2), N(1)}

RECURSIVE labelled(_, _)
labelled(ss, n) ==
    IF n = 0 THEN <<>>
    ELSE Append(labelled(ss, n - 1), [label |-> ItemLabels[n], series |-> ss[n]])

\* The totals of a side: the per-day sum of its contributors.
RECURSIVE sumAt(_, _, _)
sumAt(ss, i, n) == IF n = 0 THEN N(0) ELSE RAdd(sumAt(ss, i, n - 1), ss[n][i])

RECURSIVE perDaySum(_, _)
perDaySum(ss, L) ==
    IF L = 0 THEN <<>> ELSE Append(perDaySum(ss, L - 1), sumAt(ss, L, Len(ss)))

InitStacked ==
    \E L \in 1..MaxDays, positive \in BOOLEAN, thr \in Thresholds :
        \E ss \in SeqsUpTo(StackSeries(L), MaxItems) :
            AtCall([fn |-> "buildStackedDatasets",
                    breakdown |-> labelled(ss, Len(ss)),
                    totals |-> perDaySum(ss, L),
                    positive |-> positive,
                    majorThreshold |-> thr])

BuildStackedCall ==
    /\ call.fn = "buildStackedDatasets"
    /\ Returns(buildStackedDatasets(call.breakdown, call.totals, call.positive,
                                    call.majorThreshold))

NextStacked == BuildStackedCall

SpecStacked == InitStacked /\ [][NextStacked]_vars

-----------------------------------------------------------------------------
(* Load Scenario and start-up on drawn snapshots *)

\* An object without its field k.
without(o, k) == [f \in (DOMAIN o) \ {k} |-> o[f]]

boatSettings == JsonObj(readSettings(boatForm))

\* Stored settings: complete, lacking one field, or lacking every field the
\* page knows.
StoredSettings ==
    {boatSettings, [theme |-> "dark"]}
        \cup {without(boatSettings, k) : k \in DOMAIN boatSettings}

\* A stored row that lacks most of its fields.
partialRow == [name |-> "Bilge Pump", entry |-> "A", value |-> N(3)]

StoredRows ==
    { [editId |-> NoId],
      [editId |-> NoId, rows |-> boatRows],
      [editId |-> NoId, rows |-> <<partialRow>>],
      [editId |-> NoId, rowsNotArray |-> TRUE] }

StoredGen ==
    { [editId |-> NoId],
      [editId |-> NoId, gen |-> boatGen],
      [editId |-> NoId, genNotArray |-> TRUE] }

\* Texts that parse: with or without settings, rows and gen.
Snapshots ==
    {Assign(r, g) : r \in StoredRows, g \in StoredGen}
        \cup {Assign(Assign(r, g), [settings |-> st]) :
                 r \in StoredRows, g \in StoredGen, st \in StoredSettings}

LoadStorage ==
    [scenario : Snapshots \cup {Absent, Garbled},
     autosave : {Absent, Garbled, boatStored,
                 [editId |-> NoId, settings |-> [theme |-> "dark"],
                  rows |-> <<partialRow>>],
                 [editId |-> NoId, settings |-> boatSettings,
                  rowsNotArray |-> TRUE, gen |-> boatGen]}]

\* The page after its start-up code; call keeps what localStorage held when
\* the page was opened.
InitLoad ==
    \E st \in LoadStorage :
        /\ Holds(startup(construct(st.scenario, st.autosave, 3)))
        /\ lastOp = "startup"
        /\ nOps = 0
        /\ call = [fn |-> "pageLoad", scenario |-> st.scenario,
                   autosave |-> st.autosave]
        /\ ret = NoVal

NextLoad == LoadScenario \/ Reload

SpecLoad == InitLoad /\ [][NextLoad]_vars

-----------------------------------------------------------------------------
(* seedDefaults on drawn rows *)

\* Rows the table can hold when seedDefaults runs: default loads as seeded or
\* edited since, and loads of other names.
SeedRows ==
    { Assign(NewLoad, LIB[libFind(wanted[1])]),
      Assign(NewLoad, LIB[libFind(wanted[5])]),
      [Assign(NewLoad, LIB[libFind(wanted[5])]) EXCEPT !.value = N(9), !.qty = N(2)],
      Assign(NewLoad, LIB[libFind(wanted[7])]),
      Assign(NewLoad, [name |-> "Windlass", entry |-> "A", value |-> N(5)]),
      Assign(NewLoad, LIB[10]),
      NewLoad }

InitSeed ==
    \E rws \in SeqsUpTo(SeedRows, MaxRows) :
        /\ Holds([construct(Absent, Absent, 3) EXCEPT !.rows = rws])
        /\ lastOp = "call"
        /\ nOps = 0
        /\ call = [fn |-> "seedDefaults"]
        /\ ret = NoVal

SeedCall ==
    /\ call.fn = "seedDefaults"
    /\ lastOp = "call"
    /\ Becomes(seedDefaults(Cur))
    /\ lastOp' = "seedDefaults"
    /\ UNCHANGED <<nOps, call, ret>>

\* seedDefaults() once more, nothing having been edited since.
SeedAgain ==
    /\ call.fn = "seedDefaults"
    /\ lastOp = "seedDefaults"
    /\ nOps = 0
    /\ Becomes(seedDefaults(Cur))
    /\ nOps' = 1
    /\ UNCHANGED <<lastOp, call, ret>>

NextSeed == SeedCall \/ SeedAgain

SpecSeed == InitSeed /\ [][NextSeed]_vars

-----------------------------------------------------------------------------
(* Properties *)

RECURSIVE SumTo(_, _)
SumTo(f, n) == IF n = 0 THEN N(0) ELSE RAdd(SumTo(f, n - 1), f[n])

\* The handlers whose last step is recalc().
RecalcOps ==
    {"startup", "addRow", "sync", "delRow", "settingInput", "dodInput",
     "chemistryChange", "unitModeChange", "onAddGen", "onUpdateGen", "delGen",
     "resetAll", "recalc"}

\* After those handlers the display and the autosave are those of the
\* in-memory model.
DisplayIsCurrent ==
    lastOp \in RecalcOps =>
        /\ settings = readSettings(form)
        /\ kpi = Totals(settings, rows, gen, unitMode)
        /\ autosave = autosaveJson(settings, rows, gen)

(* ---- C1 ---- *)

C1_Identical(S, st, rws, gn, k, um) ==
    /\ st = S.settings
    /\ rws = S.rows
    /\ gn = S.gen
    /\ k = Totals(S.settings, S.rows, S.gen, um)

\* C1: once Load Scenario (or the start-up restore of the autosave) has
\* completed on a snapshot S, the in-memory settings, rows and sources and the
\* derived totals are those the engine computes from S alone, whatever was in
\* memory before.
C1_RoundTrip ==
    [][ /\ (lastOp' = "loadScenario" /\ scenario # Absent)
            => C1_Identical(scenario, settings', rows', gen', kpi', unitMode')
        /\ (lastOp' = "startup" /\ autosave # Absent)
            => C1_Identical(autosave, settings', rows', gen', kpi', unitMode')
      ]_vars

(* ---- C2 ---- *)

C2_effectiveHours(r, hours) ==
    RMul(RMul(MathMax(N(0), hours), MathMax(N(0), RDiv(r.duty, N(100)))), r.qty)

C2_expectedWh(s, r, hours) ==
    LET h == C2_effectiveHours(r, hours)
        invEff == RDiv(s.invEff, N(100))
    IN  IF ~RGt(h, N(0)) THEN N(0)
        ELSE CASE r.type = "DC" /\ r.entry = "W" -> RMul(r.value, h)
               [] r.type = "DC" /\ r.entry = "A" -> RMul(RMul(r.value, s.voltage), h)
               [] r.type = "AC" /\ r.entry = "W" -> RDiv(RMul(r.value, h), invEff)
               [] r.type = "AC" /\ r.entry = "A" ->
                      RDiv(RMul(RMul(r.value, N(120)), h), invEff)

\* C2: for every row and regime with effective hours
\* max(0, hours) x max(0, duty/100) x quantity > 0, rowWh is value x hours for
\* DC/W, value x system voltage x hours for DC/A, value x hours / (invEff/100)
\* for AC/W and value x 120 x hours / (invEff/100) for AC/A; each regime total
\* is the sum over all rows of that regime's row energies (rows without
\* effective hours adding nothing).
C2_RowEnergy ==
    lastOp = "recalc" =>
        /\ \A i \in 1..Len(rows) :
            /\ RGt(C2_effectiveHours(rows[i], rows[i].hAnchor), N(0))
                => rowWhA(settings, rows[i])
                       = C2_expectedWh(settings, rows[i], rows[i].hAnchor)
            /\ RGt(C2_effectiveHours(rows[i], rows[i].hSail), N(0))
                => rowWhS(settings, rows[i])
                       = C2_expectedWh(settings, rows[i], rows[i].hSail)
        /\ kpi.anchorWh =
               SumTo([i \in 1..Len(rows) |->
                          C2_expectedWh(settings, rows[i], rows[i].hAnchor)],
                     Len(rows))
        /\ kpi.sailWh =
               SumTo([i \in 1..Len(rows) |->
                          C2_expectedWh(settings, rows[i], rows[i].hSail)],
                     Len(rows))

\* An AC load entered in amps next to the LED anchor light, at 12 V and 90 %
\* inverter efficiency: 3 A x 120 V x (2 h x 0.5 x 2) / 0.9 = 800 Wh and
\* 2 W x 8 h = 16 Wh at anchor, 3 x 120 x 4 / 0.9 = 1600 Wh underway.
C2_Witness ==
    /\ lastOp = "recalc"
    /\ Len(rows) = 2
    /\ rows[1].type = "AC" /\ rows[1].entry = "A"
    /\ rows[2] = LIB[1]
    /\ settings.voltage = N(12)
    /\ settings.invEff = N(90)
    /\ kpi.anchorWh = N(816)
    /\ kpi.sailWh = N(1600)

(* ---- C3 ---- *)

C3_zeroOrLess(x) == x = NoVal \/ RLe(x, N(0))

\* C3: whatever the row's type, entry mode and value and whatever the
\* settings, rowWh returns exactly 0 when the quantity, the duty or the hours
\* it is given is zero, negative or missing.
C3_ZeroHours ==
    (/\ lastOp = "return"
     /\ \/ C3_zeroOrLess(call.hours)
        \/ C3_zeroOrLess(call.duty)
        \/ C3_zeroOrLess(call.qty))
        => ret = N(0)

\* Negative hours with a negative quantity: the product of the raw numbers
\* would be positive.
C3_Witness ==
    /\ lastOp = "return"
    /\ call.hours = N(-3)
    /\ call.duty = N(1)
    /\ call.qty = N(-1)
    /\ call.r.type = "AC"
    /\ call.r.value = N(2)
    /\ ret = N(0)

(* ---- C4 ---- *)

C4_zeroHours(r) ==
    /\ ~RGt(C2_effectiveHours(r, r.hAnchor), N(0))
    /\ ~RGt(C2_effectiveHours(r, r.hSail), N(0))

C4_without(i) == Totals(settings, RemoveAt(rows, i), gen, unitMode)

\* C4 as stated: removing (or adding) a row whose effective hours are zero in
\* both regimes, DC or AC, never changes the daily consumption total.
C4_NoEffectOnDailyTotal ==
    lastOp = "recalc" =>
        \A i \in 1..Len(rows) :
            C4_zeroHours(rows[i]) => C4_without(i).whDayTotal = kpi.whDayTotal

\* C4 amended: a row whose effective hours are zero in both regimes never
\* changes the anchor and underway totals; it never changes the daily
\* consumption total unless its type is AC, and then it can only raise it
\* (through the inverter standby hours).
C4_NoEffectOnLoads ==
    lastOp = "recalc" =>
        \A i \in 1..Len(rows) :
            C4_zeroHours(rows[i]) =>
                /\ C4_without(i).anchorWh = kpi.anchorWh
                /\ C4_without(i).sailWh = kpi.sailWh
                /\ rows[i].type # "AC" => C4_without(i).whDayTotal = kpi.whDayTotal
                /\ RGe(kpi.whDayTotal, C4_without(i).whDayTotal)

\* A DC load with hours in both regimes and a duty of 0, next to a load that
\* does consume.
C4_Witness ==
    /\ lastOp = "recalc"
    /\ Len(rows) = 2
    /\ rows[1] = LIB[1]
    /\ rows[2].type = "DC" /\ rows[2].duty = N(0) /\ rows[2].hAnchor = N(8)
    /\ C4_zeroHours(rows[2])
    /\ kpi.whDayTotal = N(16)

(* ---- C5 ---- *)

\* C5: in every state reached through row and settings edits, every rowWh
\* result, the anchor and underway totals, the standby total and the daily
\* consumption total are >= 0.
C5_NonNegativeConsumption ==
    /\ \A i \in 1..Len(rows) :
        /\ RGe(rowWhA(settings, rows[i]), N(0))
        /\ RGe(rowWhS(settings, rows[i]), N(0))
    /\ lastOp \in RecalcOps =>
        /\ RGe(kpi.anchorWh, N(0))
        /\ RGe(kpi.sailWh, N(0))
        /\ RGe(kpi.standbyWhDay, N(0))
        /\ RGe(kpi.whDayTotal, N(0))

(* ---- C6 ---- *)

C6_expectedWh(e, v) ==
    CASE e.type = "Solar" ->
             RMul(e.qty,
                  RMul(RMul(RMul(RMul(e.panelW, e.panels), e.sunHrs),
                            RSub(N(1), RDiv(e.deratePct, N(100)))),
                       RDiv(e.ctrlEffPct, N(100))))
      [] e.type = "Wind" ->
             RMul(e.qty, RMul(RMul(e.ratedW, RDiv(e.capacityPct, N(100))), e.hours))
      [] e.type = "Alternator" ->
             RMul(e.qty, RMul(RMul(e.dcAmps, v), e.hours))
      [] e.type = "AC Charger" ->
             RMul(e.qty,
                  RMul(RMul(RMul(e.dcAmps, v), e.hours), RDiv(e.effPct, N(100))))

\* C6: genEntryWh is quantity x the kind's formula (Solar: panelW x panels x
\* sunHrs x (1 - derate/100) x ctrlEff/100; Wind: ratedW x capacity/100 x
\* hours; Alternator: dcAmps x system voltage x hours; AC Charger: dcAmps x
\* system voltage x hours x eff/100), and the daily generation total is the
\* sum of genEntryWh over all sources.
C6_SourceEnergy ==
    lastOp = "recalc" =>
        /\ \A i \in 1..Len(gen) :
               genEntryWh(gen[i], settings.voltage)
                   = C6_expectedWh(gen[i], settings.voltage)
        /\ kpi.genWhDay =
               SumTo([i \in 1..Len(gen) |->
                          C6_expectedWh(gen[i], settings.voltage)],
                     Len(gen))

\* Two 200 W panels (4.5 sun hours, 15 % derate, 96 % controller) give
\* 1468.8 Wh; a 40 A alternator run 2 h at 12 V gives 960 Wh.
C6_Witness ==
    /\ lastOp = "recalc"
    /\ Len(gen) = 2
    /\ gen[1].type = "Solar"
    /\ genEntryWh(gen[1], settings.voltage) = Q(7344, 5)
    /\ gen[2].type = "Alternator"
    /\ settings.voltage = N(12)
    /\ kpi.genWhDay = RAdd(Q(7344, 5), N(960))

(* ---- C7 ---- *)

\* C7: for every source created or updated through the source form, negative
\* typed numbers included, genEntryWh is >= 0 and the daily generation total
\* is >= 0.
C7_NonNegativeGeneration ==
    /\ \A i \in 1..Len(gen) : RGe(genEntryWh(gen[i], settings.voltage), N(0))
    /\ lastOp \in RecalcOps => RGe(kpi.genWhDay, N(0))

(* ---- C8 ---- *)

\* C8: a load row whose type is neither DC nor AC, or whose entry mode is
\* neither W nor A, yields 0 Wh.
C8_UnknownRowIsZero ==
    (/\ lastOp = "return"
     /\ \/ call.r.type \notin {"DC", "AC"}
        \/ call.r.entry \notin {"W", "A"})
        => ret = N(0)

(* ---- C9 ---- *)

C9_acRows == {i \in 1..Len(rows) : rows[i].type = "AC"}

C9_largest(S) == CHOOSE x \in S : \A y \in S : RLe(y, x)

C9_maxOverAC(k) ==
    IF C9_acRows = {} THEN N(0) ELSE C9_largest({rows[i][k] : i \in C9_acRows})

C9_maxOverACFromZero(k) == C9_largest({N(0)} \cup {rows[i][k] : i \in C9_acRows})

\* C9 as stated: standby = invStandby x (maxA + maxS), maxA and maxS the
\* largest hours at anchor and underway over the AC rows (0 without AC rows);
\* daily consumption = anchor + underway + standby.
C9_StandbyMaxOverAC ==
    lastOp = "recalc" =>
        /\ kpi.standbyWhDay =
               RMul(settings.invStandby,
                    RAdd(C9_maxOverAC("hAnchor"), C9_maxOverAC("hSail")))
        /\ kpi.whDayTotal = RAdd(RAdd(kpi.anchorWh, kpi.sailWh), kpi.standbyWhDay)

\* C9 amended: maxA and maxS are the largest of 0 and the AC rows' hours, so
\* that AC rows with negative hours count as 0 hours; the largest, not the
\* sum; DC rows never enter it; daily consumption = anchor + underway +
\* standby.
C9_Standby ==
    lastOp = "recalc" =>
        /\ kpi.standbyWhDay =
               RMul(settings.invStandby,
                    RAdd(C9_maxOverACFromZero("hAnchor"),
                         C9_maxOverACFromZero("hSail")))
        /\ kpi.whDayTotal = RAdd(RAdd(kpi.anchorWh, kpi.sailWh), kpi.standbyWhDay)

\* Two AC rows with different hours in both regimes: 6 W x (8 h + 4 h).
C9_Witness ==
    /\ lastOp = "recalc"
    /\ Len(rows) = 2
    /\ rows[1].type = "AC" /\ rows[1].hAnchor = N(2) /\ rows[1].hSail = N(4)
    /\ rows[2].type = "AC" /\ rows[2].hAnchor = N(8) /\ rows[2].hSail = N(1)
    /\ settings.invStandby = N(6)
    /\ kpi.standbyWhDay = N(72)

(* ---- C10 ---- *)

C10_withoutSources == Totals(settings, rows, <<>>, unitMode)

C11_ceil(x) == CHOOSE k \in {MathCeil(x)} : RGe(k, x) /\ RLt(RSub(k, N(1)), x)

C11_sizing(k, st) ==
    LET withReserveWh == RMul(k.tripWh, RAdd(N(1), RDiv(st.reserve, N(100))))
        byDoD == RDiv(withReserveWh, RDiv(st.dod, N(100)))
        nameplateWh == IF RGt(st.derate, N(0))
                       THEN RDiv(byDoD, RSub(N(1), RDiv(st.derate, N(100))))
                       ELSE byDoD
        nameplateAh == RDiv(nameplateWh, st.voltage)
        hundreds == RDiv(nameplateAh, N(100))
    IN  /\ k.withReserveWh = withReserveWh
        /\ k.nameplateWh = nameplateWh
        /\ k.nameplateAh = nameplateAh
        /\ k.modules100 = IF RGt(hundreds, N(1)) THEN C11_ceil(hundreds) ELSE N(1)
        /\ k.whDayTotal = N(0) => k.modules100 = N(1)

\* C11: withReserve = trip x (1 + reserve/100); nameplate = withReserve /
\* (DoD/100), divided again by (1 - derate/100) when derate > 0; the module
\* count is max(1, ceil(nameplateAh / 100)) with nameplateAh = nameplateWh /
\* voltage; zero consumption yields 1 module.
C11_Sizing == lastOp = "recalc" => C11_sizing(kpi, settings)

\* The same sizing rule for the voltages that are not 0, with the worked
\* example: a 2000 Wh trip at 12 V, reserve 20, DoD 88, derate 0 needs 3
\* modules.
C11_SizingAtVoltage ==
    /\ (lastOp = "recalc" /\ settings.voltage # N(0)) => C11_sizing(kpi, settings)
    /\ sizing(readSettings(emptyForm), RDiv(N(2000), N(12))).modules100 = N(3)
    /\ sizing(readSettings(emptyForm), RDiv(N(2000), N(12))).nameplateWh
           = RDiv(N(2400), Q(88, 100))

(* ---- C12 ---- *)

C12_within(x, lo, hi) == IsFinite(x) /\ RGe(x, lo) /\ RLe(x, hi)

\* C12: after every recalc, whatever the settings inputs hold (empty,
\* negative, fractional or out-of-range text), state.settings has dod in
\* [10, 99], reserve in [0, 100], days an integer >= 1, invEff in [50, 100],
\* invStandby >= 0 and derate in [0, 80].
C12_SettingsClamped ==
    lastOp = "recalc" =>
        /\ C12_within(settings.dod, N(10), N(99))
        /\ C12_within(settings.reserve, N(0), N(100))
        /\ IsFinite(settings.days) /\ settings.days[2] = 1 /\ settings.days[1] >= 1
        /\ C12_within(settings.invEff, N(50), N(100))
        /\ IsFinite(settings.invStandby) /\ RGe(settings.invStandby, N(0))
        /\ C12_within(settings.derate, N(0), N(80))

\* An empty DoD, a reserve of 120, 2.5 days, a negative derate and a
\* negative standby draw, all brought into range.
C12_Witness ==
    /\ lastOp = "recalc"
    /\ form.dod = NoVal /\ settings.dod = N(10)
    /\ form.reserve = N(120) /\ settings.reserve = N(100)
    /\ form.days = Q(5, 2) /\ settings.days = N(3)
    /\ form.derate = N(-5) /\ settings.derate = N(0)
    /\ form.invStandby = N(-5) /\ settings.invStandby = N(0)
    /\ form.invEff = NoVal /\ settings.invEff = N(50)

(* ---- C13 ---- *)

C13_voltageDerived ==
    {"ahDayTotal", "genAhDay", "netAh", "tripAh", "withReserveAh",
     "withReserveWh", "nameplateAh", "nameplateWh", "modules100"}

\* C13: whatever the voltage input holds (0 and the empty text included), no
\* quantity recalc derives by dividing by the voltage (Ah totals, net Ah, trip
\* Ah, with-reserve and nameplate figures, module count) is NaN or Infinity.
C13_NoNaNOrInfinity ==
    lastOp \in RecalcOps => \A k \in C13_voltageDerived : IsFinite(kpi[k])

(* ---- C14 ---- *)

\* C14: on every recompute the model handed to renderReports carries a
\* bankUsableWh entry (the usable energy of the installed bank), so that the
\* reports side has a bank to project the state of charge from.
C14_BankPassed ==
    lastOp \in RecalcOps =>
        /\ "bankUsableWh" \in DOMAIN reports
        /\ IsNum(reports.bankUsableWh)

(* ---- C15 ---- *)

\* The running level after day i: the bank plus the first i net entries, an
\* entry that is missing or NaN adding nothing.
RECURSIVE C15_level(_, _, _)
C15_level(bank, net, i) ==
    IF i = 0 THEN bank
    ELSE RAdd(C15_level(bank, net, i - 1),
              IF i <= Len(net) /\ ~IsNaN(net[i]) THEN net[i] ELSE N(0))

\* The running level with every entry added as it is.
RECURSIVE C15_levelAsIs(_, _, _)
C15_levelAsIs(bank, net, i) ==
    IF i = 0 THEN bank
    ELSE RAdd(C15_levelAsIs(bank, net, i - 1), ToNum(At(net, i)))

C15_clampPct(level, bank) == clamp(RMul(RDiv(level, bank), N(100)), N(0), N(100))

\* y is x to one decimal place.
C15_oneDecimal(x, y) ==
    IF IsFinite(x)
    THEN /\ IsFinite(y) /\ 10 % y[2] = 0
         /\ RLe(MathAbs(RSub(x, y)), Q(1, 20))
    ELSE y = x

C15_socCalled ==
    /\ lastOp = "return" /\ call.fn = "renderSoc"
    /\ RGt(call.bank, N(0)) /\ call.isArray

\* C15 as stated: for a bank > 0 renderSoc emits one value per day, the value
\* of day i being clamp(level / bank x 100, 0, 100) with level = bank plus the
\* net entries of days 1..i; the running level itself is never clamped.
C15_SocIsClampedLevel ==
    C15_socCalled =>
        /\ ret.available
        /\ Len(ret.soc) = Len(call.labels)
        /\ \A i \in 1..Len(call.labels) :
              ret.soc[i] = C15_clampPct(C15_levelAsIs(call.bank, call.perDayNet, i),
                                        call.bank)

\* C15: for a bank > 0 renderSoc emits one value per day, the value of day i
\* being clamp(level / bank x 100, 0, 100) to one decimal place, with level =
\* bank plus the net entries of days 1..i (a missing or NaN entry adds 0) and
\* never clamped itself; a bank of 1000 with net -200, -200, +500 gives
\* 80, 60, 100.
C15_SocProjection ==
    C15_socCalled =>
        /\ ret.available
        /\ Len(ret.soc) = Len(call.labels)
        /\ \A i \in 1..Len(call.labels) :
              C15_oneDecimal(C15_clampPct(C15_level(call.bank, call.perDayNet, i),
                                          call.bank),
                             ret.soc[i])
        /\ (/\ call.bank = N(1000) /\ Len(call.labels) = 3
            /\ call.perDayNet = <<N(-200), N(-200), N(500)>>)
           => ret.soc = <<N(80), N(60), N(100)>>

\* The level passes the bank (1500 of 1000) and is not cut back to it: the
\* next day's -200 still leaves 100 %.
C15_Witness ==
    /\ C15_socCalled
    /\ call.bank = N(1000) /\ Len(call.labels) = 3
    /\ call.perDayNet = <<N(500), N(-200), N(-200)>>
    /\ ret.soc = <<N(100), N(100), N(100)>>

(* ---- C16 ---- *)

\* C16: whatever the bank, the net series (entries missing or not) and the
\* number of days, every percentage renderSoc emits is a number in [0, 100].
C16_SocWithinBounds ==
    (lastOp = "return" /\ call.fn = "renderSoc") =>
        \A i \in 1..Len(ret.soc) :
            /\ IsFinite(ret.soc[i])
            /\ RGe(ret.soc[i], N(0)) /\ RLe(ret.soc[i], N(100))

(* ---- C17 ---- *)

C17_noBank(bank) == bank = NoVal \/ IsNaN(bank) \/ RLe(bank, N(0))

\* C17: when the bank is 0 or less, missing or NaN, renderSoc computes no
\* series: the chart is reported unavailable and nothing (so no NaN and no
\* Infinity) is emitted.
C17_NoBankNoSeries ==
    (lastOp = "return" /\ call.fn = "renderSoc" /\ C17_noBank(call.bank)) =>
        /\ ~ret.available
        /\ ret.soc = <<>>

\* A NaN bank with three days of net energy to project.
C17_Witness ==
    /\ lastOp = "return" /\ call.fn = "renderSoc"
    /\ IsNaN(call.bank) /\ call.isArray
    /\ Len(call.labels) = 3 /\ call.perDayNet = <<N(-200), N(-200), N(500)>>
    /\ ~ret.available

(* ---- C18 ---- *)

C18_built == lastOp = "return" /\ call.fn = "buildStackedDatasets"

\* The summed magnitude of a series over all days.
C18_mag(series) ==
    SumTo([i \in 1..Len(series) |-> MathAbs(series[i])], Len(series))

\* Item k is a major contributor: its share of the total magnitude reaches
\* the threshold. With a total magnitude of 0 the code divides by 1e-9, so
\* any item with a magnitude, and every item at threshold 0, is major.
C18_isMajor(k) ==
    LET mag == C18_mag(call.breakdown[k].series)
        total == C18_mag(call.totals)
    IN  IF RGt(total, N(0)) THEN RGe(RDiv(mag, total), call.majorThreshold)
        ELSE RGt(mag, N(0)) \/ call.majorThreshold = N(0)

C18_items == 1..Len(call.breakdown)
C18_majors == {k \in C18_items : C18_isMajor(k)}
C18_minors == {k \in C18_items : ~C18_isMajor(k)}

\* The sum over a set K of items of f[k].
RECURSIVE C18_sumOver(_, _)
C18_sumOver(f, K) ==
    IF K = {} THEN N(0)
    ELSE LET k == CHOOSE x \in K : TRUE
         IN  RAdd(f[k], C18_sumOver(f, K \ {k}))

\* The sum of all emitted datasets at day i.
C18_emittedAt(i) == SumTo([k \in 1..Len(ret) |-> ret[k].data[i]], Len(ret))

\* C18 as stated: on either side, at each day the emitted datasets (majors
\* plus "Other") add up to the total of that day.
C18_SumIsTotal ==
    C18_built =>
        \A i \in 1..Len(call.totals) : C18_emittedAt(i) = call.totals[i]

\* C18: the breakdown items adding up to the total series day by day, for any
\* threshold in [0, 1]: on the generation side the emitted datasets (majors
\* plus "Other") add up to the total at each day; on the consumption side
\* every value is emitted as a negated magnitude, so the datasets add up to
\* minus (the majors' magnitudes plus the magnitude of the minors' sum), which
\* is minus the total at a day on which no item is negative.
C18_Completeness ==
    C18_built =>
        \A i \in 1..Len(call.totals) :
            IF call.positive
            THEN C18_emittedAt(i) = call.totals[i]
            ELSE /\ C18_emittedAt(i) =
                      RNeg(RAdd(C18_sumOver([k \in C18_items |->
                                               MathAbs(call.breakdown[k].series[i])],
                                            C18_majors),
                                MathAbs(C18_sumOver([k \in C18_items |->
                                                       call.breakdown[k].series[i]],
                                                    C18_minors))))
                 /\ (\A k \in C18_items : RGe(call.breakdown[k].series[i], N(0)))
                    => C18_emittedAt(i) = RNeg(call.totals[i])

\* Three generation items of which two (1 a day each, against 4) fall under a
\* threshold of one half and are folded into "Other".
C18_Witness ==
    /\ C18_built /\ call.positive
    /\ call.majorThreshold = Q(1, 2)
    /\ Len(call.breakdown) = 3 /\ Len(call.totals) = 2
    /\ call.totals = <<N(6), N(6)>>
    /\ Len(ret) = 2
    /\ ret[2] = [label |-> "Other", data |-> <<N(2), N(2)>>]

(* ---- C19 ---- *)

\* A value as it is emitted on the side that is drawn.
C19_emitted(v) == IF call.positive THEN v ELSE RNeg(MathAbs(v))

\* The datasets that carry a given label.
C19_labelled(l) == {j \in 1..Len(ret) : ret[j].label = l}

\* C19: with share = an item's summed magnitude over all days / the total
\* magnitude, every item whose share reaches the threshold is emitted once
\* under its own label with its own series, every item below it is emitted
\* under no label of its own and is added element-wise into the one "Other"
\* dataset, which comes last; nothing else is emitted, and there is no
\* "Other" when no item is below the threshold.
C19_Partition ==
    C18_built =>
        /\ Len(ret) = Cardinality(C18_majors) + (IF C18_minors = {} THEN 0 ELSE 1)
        /\ \A k \in C18_majors :
              /\ Cardinality(C19_labelled(call.breakdown[k].label)) = 1
              /\ \A j \in C19_labelled(call.breakdown[k].label) :
                    /\ Len(ret[j].data) = Len(call.breakdown[k].series)
                    /\ \A i \in 1..Len(ret[j].data) :
                          ret[j].data[i] = C19_emitted(call.breakdown[k].series[i])
        /\ \A k \in C18_minors : C19_labelled(call.breakdown[k].label) = {}
        /\ C18_minors = {} => C19_labelled("Other") = {}
        /\ C18_minors # {} =>
              /\ C19_labelled("Other") = {Len(ret)}
              /\ Len(ret[Len(ret)].data) = Len(call.totals)
              /\ \A i \in 1..Len(call.totals) :
                    ret[Len(ret)].data[i] =
                        C19_emitted(C18_sumOver([k \in C18_items |->
                                                   call.breakdown[k].series[i]],
                                                C18_minors))

\* Consumption of 1, 1 and 4 a day at a threshold of one half: the item at
\* 4 (two thirds) is kept, the other two (one sixth each) become "Other".
C19_Witness ==
    /\ C18_built /\ ~call.positive
    /\ call.majorThreshold = Q(1, 2)
    /\ call.totals = <<N(6), N(6)>>
    /\ ret = <<[label |-> "Alternator", data |-> <<N(-4), N(-4)>>],
               [label |-> "Other", data |-> <<N(-2), N(-2)>>]>>

(* ---- C20 ---- *)

\* C20: a recalc that follows a recalc with no edit in between leaves
\* state.settings, the derived totals, the autosave snapshot and the model
\* passed to renderReports as they were, and no recalc changes the rows or
\* the sources.
C20_Idempotent ==
    [][/\ lastOp' = "recalc" => (rows' = rows /\ gen' = gen)
       /\ (lastOp = "recalc" /\ lastOp' = "recalc") =>
             /\ settings' = settings
             /\ kpi' = kpi
             /\ autosave' = autosave
             /\ reports' = reports]_vars

\* A second recalc over two rows, a source and settings inputs that differ
\* from the settings held before the first one.
C20_Witness ==
    /\ lastOp = "recalc" /\ nOps = 1
    /\ Len(rows) = 2 /\ Len(gen) >= 1
    /\ settings # DEFAULTS
    /\ Len(reports.labels) = settings.days[1]
    /\ Len(reports.useBreakdown) >= 2

(* ---- C21 ---- *)

\* The seven default loads and the default solar source, as a first visit
\* seeds them.
C21_defaultScenario ==
    /\ Len(rows) = Len(wanted)
    /\ \A i \in 1..Len(wanted) :
          /\ rows[i].name = wanted[i]
          /\ rows[i] = Assign(NewLoad, LIB[libFind(wanted[i])])
    /\ Len(gen) = 1
    /\ gen[1].type = "Solar" /\ gen[1].name = defaultSolarForm.name
    /\ gen[1].panelW = N(200) /\ gen[1].panels = N(2)

\* C21: Load Scenario on a stored scenario that does not parse shows
\* "Failed to load scenario." and leaves settings, rows and sources (and the
\* settings inputs) as they were; a page opened on an autosave that does not
\* parse starts with the default scenario.
C21_Unparsable ==
    /\ []((lastOp = "startup" /\ nOps = 0 /\ call.autosave = Garbled)
            => C21_defaultScenario)
    /\ [][(scenario = Garbled /\ lastOp' = "loadScenario") =>
             /\ toast' = "Failed to load scenario."
             /\ settings' = settings /\ rows' = rows /\ gen' = gen
             /\ form' = form /\ kpi' = kpi]_vars

\* Load Scenario was clicked on an unparsable scenario, on a page that had
\* started from an unparsable autosave.
C21_Witness ==
    /\ lastOp = "loadScenario"
    /\ scenario = Garbled /\ call.autosave = Garbled
    /\ toast = "Failed to load scenario."
    /\ Len(rows) = 7 /\ Len(gen) = 1

(* ---- C22 ---- *)

\* Field k of a stored object, or d when the object lacks it.
C22_or(o, k, d) == IF k \in DOMAIN o THEN o[k] ELSE d

\* The settings inputs a snapshot's settings are to give.
C22_form(ds) ==
    [voltage |-> C22_or(ds, "voltage", N(12)),
     chemistry |-> C22_or(ds, "chemistry", "LFP"),
     dod |-> C22_or(ds, "dod", dodByChem[C22_or(ds, "chemistry", "LFP")]),
     reserve |-> C22_or(ds, "reserve", N(20)),
     days |-> C22_or(ds, "days", N(2)),
     invEff |-> C22_or(ds, "invEff", N(90)),
     invStandby |-> C22_or(ds, "invStandby", N(6)),
     derate |-> C22_or(ds, "derate", N(0))]

\* A stored row with the new-row defaults for what it lacks.
C22_row(r) ==
    [k \in {"name", "category", "type", "entry", "value", "hAnchor", "hSail",
            "duty", "qty"} \cup DOMAIN r |->
        IF k \in DOMAIN r THEN r[k]
        ELSE CASE k = "name" -> "New Load"
               [] k = "category" -> CATS[1]
               [] k = "type" -> "DC"
               [] k = "entry" -> "W"
               [] k = "value" -> N(1)
               [] k = "hAnchor" -> N(0)
               [] k = "hSail" -> N(0)
               [] k = "duty" -> N(100)
               [] k = "qty" -> N(1)]

\* A parsed snapshot that has settings, and rows and gen that are lists
\* or missing.
C22_loadable(data) ==
    /\ data # Absent /\ data # Garbled
    /\ "settings" \in DOMAIN data
    /\ "rowsNotArray" \notin DOMAIN data
    /\ "genNotArray" \notin DOMAIN data

\* The page holds what data gives, defaults filled in.
C22_loaded(data, f, rws, gn) ==
    /\ f = C22_form(data.settings)
    /\ Len(rws) = Len(C22_or(data, "rows", <<>>))
    /\ \A i \in 1..Len(rws) : rws[i] = C22_row(data.rows[i])
    /\ gn = C22_or(data, "gen", <<>>)

\* C22: loading a parsed snapshot, by Load Scenario or at start-up, fills the
\* settings inputs with the snapshot's values, a missing one with its default
\* (voltage 12, chemistry LFP, DoD the chemistry's default, reserve 20, days
\* 2, invEff 90, invStandby 6, derate 0); every stored row is added with the
\* new-row defaults for the fields it lacks; missing rows or gen give an empty
\* list; the rest is the snapshot's.
C22_MissingFields ==
    /\ []((lastOp = "startup" /\ nOps = 0 /\ C22_loadable(call.autosave))
            => C22_loaded(call.autosave, form, rows, gen))
    /\ [][(C22_loadable(scenario) /\ lastOp' = "loadScenario")
            => C22_loaded(scenario, form', rows', gen')]_vars
    /\ [][(C22_loadable(autosave) /\ lastOp' = "startup")
            => C22_loaded(autosave, form', rows', gen')]_vars

\* A scenario without DoD, days and gen, holding one row that has only a
\* name, an entry mode and a value, has been loaded.
C22_Witness ==
    /\ lastOp = "loadScenario"
    /\ C22_loadable(scenario)
    /\ DOMAIN scenario.settings = {"theme"}
    /\ "gen" \notin DOMAIN scenario /\ "rows" \in DOMAIN scenario
    /\ scenario.rows = <<partialRow>>
    /\ form.dod = N(88) /\ form.days = N(2) /\ form.voltage = N(12)
    /\ rows = <<[name |-> "Bilge Pump", category |-> CATS[1], type |-> "DC",
                 entry |-> "A", value |-> N(3), hAnchor |-> N(0),
                 hSail |-> N(0), duty |-> N(100), qty |-> N(1)]>>
    /\ gen = <<>>
    /\ toast = "Scenario loaded."

(* ---- C23 ---- *)

\* C23: whatever was done before (manual DoD edits, Load Scenario and Reset
\* All included), a change of the chemistry to LFP, AGM or GEL puts that
\* chemistry's default (88, 50, 55) into the DoD input, and the recompute
\* that follows works with it.
C23_ChemistrySetsDod ==
    [][lastOp' = "chemistryChange" =>
          /\ form'.chemistry \in {"LFP", "AGM", "GEL"}
          /\ form'.dod = dodByChem[form'.chemistry]
          /\ settings'.dod = dodByChem[form'.chemistry]]_vars

(* ---- C24 ---- *)

C24_names(rws) == {rws[i].name : i \in 1..Len(rws)}

\* The default names that rws lacks, in the order of the default list.
C24_lacking(rws) == SelectSeq(wanted, LAMBDA n : n \notin C24_names(rws))

\* C24: a call of seedDefaults leaves every row it finds in place and
\* unchanged and appends one library row for each of the seven default names
\* that no row bears, and only those, so that afterwards all seven names are
\* present; a second call with no edit in between adds nothing.
C24_SeedIdempotent ==
    [][lastOp' = "seedDefaults" =>
          /\ \A i \in 1..Len(wanted) : wanted[i] \in C24_names(rows')
          /\ Len(rows') = Len(rows) + Len(C24_lacking(rows))
          /\ SubSeq(rows', 1, Len(rows)) = rows
          /\ \A j \in 1..Len(C24_lacking(rows)) :
                /\ rows'[Len(rows) + j].name = C24_lacking(rows)[j]
                /\ \E i \in 1..Len(LIB) :
                      rows'[Len(rows) + j] = Assign(NewLoad, LIB[i])
          /\ lastOp = "seedDefaults" => rows' = rows]_vars

\* A second call on a table that held an edited Cabin Fan and a Windlass
\* before the first one: eight rows, the two old ones first.
C24_Witness ==
    /\ lastOp = "seedDefaults" /\ nOps = 1
    /\ Len(rows) = 8
    /\ rows[1].name = "Cabin Fan" /\ rows[1].value = N(9)
    /\ rows[2].name = "Windlass"

(* ---- C25 ---- *)

\* C25: after every completed user operation (row add, edit and delete,
\* source add, update and delete, settings edit, unit toggle, Load Scenario,
\* Reset All) the stored autosave is the serialization of the in-memory
\* settings, rows and sources.
C25_AutosaveConsistent ==
    lastOp \in RecalcOps \cup {"loadScenario"} =>
        autosave = autosaveJson(settings, rows, gen)

-----------------------------------------------------------------------------
(* The source list under add / edit / update / cancel / delete *)

\* Clicks on the source form and the source list in one run.
MaxGenOps == 4

GenStep(op, m) ==
    /\ nOps < MaxGenOps
    /\ Becomes(m)
    /\ lastOp' = op
    /\ nOps' = nOps + 1
    /\ UNCHANGED <<call, ret>>

GenAdd ==
    /\ editId = NoId
    /\ \E raw \in GenForms : GenStep("onAddGen", onAddGen(Cur, raw))

GenUpdate ==
    /\ editId # NoId
    /\ \E raw \in GenForms : GenStep("onUpdateGen", onUpdateGen(Cur, raw))

GenCancel ==
    /\ editId # NoId
    /\ GenStep("clearGenForm", clearGenForm(Cur))

GenEdit ==
    \E i \in 1..Len(gen) : GenStep("editGen", editGen(Cur, Get(gen[i], "id")))

GenDelete ==
    \E i \in 1..Len(gen) : GenStep("delGen", delGen(Cur, Get(gen[i], "id")))

NextGen == GenAdd \/ GenUpdate \/ GenCancel \/ GenEdit \/ GenDelete

SpecGen == Init /\ [][NextGen]_vars

genIds(gn) == [i \in 1..Len(gn) |-> Get(gn[i], "id")]

\* C26: Update keeps the number and the order of the sources: it replaces
\* the entry whose id is the id under edit by what the form reads and leaves
\* every other entry as it was; when that entry has been deleted meanwhile,
\* the list stays as it was; either way editId is null afterwards; and the
\* ids in state.gen are pairwise distinct in every state.
C26_distinct ==
    \A i, j \in 1..Len(gen) : i # j => Get(gen[i], "id") # Get(gen[j], "id")

C26_update ==
    /\ Len(gen') = Len(gen)
    /\ \A i \in 1..Len(gen) :
           IF Get(gen[i], "id") = editId
           THEN \E raw \in GenForms : gen'[i] = readGenForm(raw, editId)
           ELSE gen'[i] = gen[i]
    /\ editId' = NoId

C26_UpdateInPlace ==
    /\ [](C26_distinct)
    /\ [][lastOp' = "onUpdateGen" /\ nOps' = nOps + 1 => C26_update]_vars

\* Update was clicked after the source under edit had been deleted: the list
\* is empty, which no update of an entry still in the list leaves behind.
C26_Witness ==
    /\ lastOp = "onUpdateGen"
    /\ editId = NoId
    /\ gen = <<>>

(* ---- C27 ---- *)

C27_rows ==
    /\ Len(rows) = Len(wanted)
    /\ \A i \in 1..Len(wanted) :
           \E j \in 1..Len(LIB) :
               /\ LIB[j].name = wanted[i]
               /\ rows[i] = Assign(NewLoad, LIB[j])

C27_solar ==
    [type |-> "Solar", name |-> "Solar: 200 W x 2", qty |-> N(1),
     hours |-> Q(9, 2), panelW |-> N(200), panels |-> N(2), sunHrs |-> Q(9, 2),
     deratePct |-> N(15), ctrlEffPct |-> N(96)]

C27_settings ==
    [voltage |-> N(12), chemistry |-> "LFP", dod |-> N(88), reserve |-> N(20),
     days |-> N(2), invEff |-> N(90), invStandby |-> N(6), derate |-> N(0)]

\* C27: after a confirmed Reset All, whatever the state before it (a source
\* under edit included), the rows are the seven default loads, the sources
\* are one Solar entry (200 W x 2, 4.5 sun hours, 15 % derate, 96 %
\* controller efficiency, quantity 1), the settings are 12 V, LFP, DoD 88,
\* reserve 20, days 2, invEff 90, invStandby 6, derate 0, the unit mode is Ah
\* and the displayed totals are those of this model.
C27_ResetAll ==
    lastOp = "resetAll" =>
        /\ C27_rows
        /\ Len(gen) = 1
        /\ without(gen[1], "id") = C27_solar
        /\ settings = C27_settings
        /\ unitMode = "Ah"
        /\ kpi = Totals(C27_settings, rows, gen, "Ah")

\* Reset All was confirmed while a source was being edited: the Solar entry
\* carries the id that was under edit, not a fresh one.
C27_Witness ==
    /\ lastOp = "resetAll"
    /\ Len(gen) = 1
    /\ Get(gen[1], "id") + 1 < nextId

-----------------------------------------------------------------------------
(* The net KPI colouring on IEEE-754 doubles: the sums, the differences and
   the divisions by the voltage of recalc, each rounded to 53 significant bits,
   nearest, ties to even.  Numbers stay in the normal range here. *)

\* A natural number of any width: its bits, most significant first, without
\* a leading zero; <<>> is 0.  Arithmetic works on chunks of 20 bits.
Strip(b) ==
    IF \A i \in 1..Len(b) : b[i] = 0 THEN <<>>
    ELSE LET k == CHOOSE k \in 1..Len(b) :
                      b[k] = 1 /\ \A j \in 1..(k - 1) : b[j] = 0
         IN  SubSeq(b, k, Len(b))

RECURSIVE BitsOf(_)
BitsOf(n) == IF n = 0 THEN <<>> ELSE Append(BitsOf(n \div 2), n % 2)

RECURSIVE ValOf(_)
ValOf(b) ==
    IF b = <<>> THEN 0 ELSE 2 * ValOf(SubSeq(b, 1, Len(b) - 1)) + b[Len(b)]

Zeros(k) == [i \in 1..k |-> 0]

PadTo(b, n) == Zeros(n - Len(b)) \o b

Chunk(b, c) == ValOf(SubSeq(b, 20 * (c - 1) + 1, 20 * c))

ChunkBits(n) == PadTo(BitsOf(n), 20)

\* The least number of chunks that hold a and b.
Chunks(a, b) ==
    LET n == IF Len(a) > Len(b) THEN Len(a) ELSE Len(b) IN (n + 19) \div 20

BigCmp(a0, b0) ==
    LET a == Strip(a0)
        b == Strip(b0)
    IN  IF Len(a) # Len(b) THEN (IF Len(a) > Len(b) THEN 1 ELSE -1)
        ELSE IF a = b THEN 0
        ELSE LET i == CHOOSE i \in 1..Len(a) :
                          /\ a[i] # b[i]
                          /\ \A j \in 1..(i - 1) : a[j] = b[j]
             IN  IF a[i] > b[i] THEN 1 ELSE -1

\* Chunks c.. of a + b and the carry into chunk c - 1 (a, b of one length).
RECURSIVE AddFrom(_, _, _)
AddFrom(a, b, c) ==
    IF 20 * c > Len(a) THEN [bits |-> <<>>, carry |-> 0]
    ELSE LET r == AddFrom(a, b, c + 1)
             t == Chunk(a, c) + Chunk(b, c) + r.carry
         IN  [bits |-> ChunkBits(t % 1048576) \o r.bits,
              carry |-> t \div 1048576]

BigAdd(a, b) ==
    LET n == 20 * Chunks(a, b)
        r == AddFrom(PadTo(a, n), PadTo(b, n), 1)
    IN  Strip(BitsOf(r.carry) \o r.bits)

\* Chunks c.. of a - b and the borrow from chunk c - 1.
RECURSIVE SubFrom(_, _, _)
SubFrom(a, b, c) ==
    IF 20 * c > Len(a) THEN [bits |-> <<>>, borrow |-> 0]
    ELSE LET r == SubFrom(a, b, c + 1)
             t == Chunk(a, c) - Chunk(b, c) - r.borrow
         IN  [bits |-> ChunkBits(IF t < 0 THEN t + 1048576 ELSE t) \o r.bits,
              borrow |-> IF t < 0 THEN 1 ELSE 0]

\* a - b for a >= b
BigSub(a, b) ==
    LET n == 20 * Chunks(a, b)
    IN  Strip(SubFrom(PadTo(a, n), PadTo(b, n), 1).bits)

\* Long division of the first c chunks of a by the small integer v.
RECURSIVE DivTo(_, _, _)
DivTo(a, v, c) ==
    IF c = 0 THEN [q |-> <<>>, r |-> 0]
    ELSE LET p == DivTo(a, v, c - 1)
             t == 1048576 * p.r + Chunk(a, c)
         IN  [q |-> p.q \o ChunkBits(t \div v), r |-> t % v]

\* Quotient and remainder of a by v, 0 < v < 2048
BigDiv(a, v) ==
    LET n == Chunks(a, <<>>) IN DivTo(PadTo(a, 20 * n), v, n)

\* A double: (-1)^neg * mag * 2^ex, mag of at most 53 bits.
FZero == [neg |-> FALSE, mag |-> <<>>, ex |-> 0]

FromInt(n) == [neg |-> n < 0, mag |-> BitsOf(IF n < 0 THEN -n ELSE n), ex |-> 0]

\* mag * 2^ex (and something below the last bit when sticky) rounded to a
\* double: to nearest, ties to even.
Round53(neg, mag0, ex, sticky) ==
    LET b == Strip(mag0)
    IN  IF b = <<>> THEN FZero
        ELSE IF Len(b) <= 53 THEN [neg |-> neg, mag |-> b, ex |-> ex]
        ELSE LET top == SubSeq(b, 1, 53)
                 rest == sticky \/ \E i \in 55..Len(b) : b[i] = 1
                 up == b[54] = 1 /\ (rest \/ top[53] = 1)
                 t == IF up THEN BigAdd(top, <<1>>) ELSE top
             IN  IF Len(t) = 54
                 THEN [neg |-> neg, mag |-> SubSeq(t, 1, 53),
                       ex |-> ex + Len(b) - 52]
                 ELSE [neg |-> neg, mag |-> t, ex |-> ex + Len(b) - 53]

\* x / v for a voltage v that is a small positive integer
FDivInt(x, v) ==
    LET d == BigDiv(x.mag \o Zeros(64), v)
    IN  Round53(x.neg, d.q, x.ex - 64, d.r # 0)

\* The magnitudes of x and y over one exponent.
Aligned(x, y) ==
    LET e == IF x.ex < y.ex THEN x.ex ELSE y.ex
    IN  [x |-> Strip(x.mag \o Zeros(x.ex - e)),
         y |-> Strip(y.mag \o Zeros(y.ex - e)), ex |-> e]

FNeg(x) == IF x.mag = <<>> THEN x ELSE [x EXCEPT !.neg = ~@]

FAbs(x) == [x EXCEPT !.neg = FALSE]

FAdd(x, y) ==
    LET a == Aligned(x, y)
        c == BigCmp(a.x, a.y)
    IN  IF x.neg = y.neg THEN Round53(x.neg, BigAdd(a.x, a.y), a.ex, FALSE)
        ELSE IF c = 0 THEN FZero
        ELSE IF c > 0 THEN Round53(x.neg, BigSub(a.x, a.y), a.ex, FALSE)
        ELSE Round53(y.neg, BigSub(a.y, a.x), a.ex, FALSE)

FSub(x, y) == FAdd(x, FNeg(y))

\* x < y
FLt(x, y) ==
    LET a == Aligned(x, y)
        c == BigCmp(a.x, a.y)
    IN  IF x.neg /\ ~y.neg THEN a.x # <<>> \/ a.y # <<>>
        ELSE IF ~x.neg /\ y.neg THEN FALSE
        ELSE IF x.neg THEN c > 0
        ELSE c < 0

FGt(x, y) == FLt(y, x)

\* parseFloat of a decimal with one digit after the point: the double
\* nearest to n / 10.
Tenths(n) == FDivInt(FromInt(n), 10)

\* recalc from the day's sums on: ahDayTotal, genAhDay, netWh, netAh and the
\* class put on the net KPI.
netStatusDouble(genWhDay, whDayTotal, v, um) ==
    LET ahDayTotal == FDivInt(whDayTotal, v)
        genAhDay == FDivInt(genWhDay, v)
        netWh == FSub(genWhDay, whDayTotal)
        netAh == FSub(genAhDay, ahDayTotal)
        netMetric == IF um = "Wh" THEN netWh ELSE netAh
        threshold == IF um = "Wh" THEN FromInt(200) ELSE FDivInt(FromInt(200), v)
    IN  IF FGt(netMetric, FZero) THEN "ok"
        ELSE IF FLt(FAbs(netMetric), threshold) THEN "warn"
        ELSE "bad"

\* The day's sums of recalc for two DC loads entered in watts that run one
\* hour at anchor (duty 100 %, quantity 1) and one wind source at 100 %
\* capacity for one hour: every product is by 1, only the sums round.
whDayTotalDouble(wA, wB) ==
    FAdd(FAdd(FAdd(FAdd(FZero, wA), wB), FZero), FZero)

genWhDayDouble(g) == FAdd(FZero, g)

\* Watts typed into the two rows and the source, in tenths, and the voltage.
LoadTenths == {1, 2, 7, 3000}

SourceTenths == {0, 3, 8, 4000}

NetVolts == {12, 24}

InitNet ==
    \E a \in LoadTenths, b \in LoadTenths, g \in SourceTenths, v \in NetVolts,
       um \in {"Wh", "Ah"} :
        LET m == construct(Absent, Absent, 3)
        IN  /\ Holds([m EXCEPT !.unitMode = um])
            /\ lastOp = "call"
            /\ nOps = 0
            /\ call = [fn |-> "netKpi", wA |-> a, wB |-> b, g |-> g, v |-> v]
            /\ ret = NoVal

NetCall ==
    /\ call.fn = "netKpi"
    /\ lastOp = "call"
    /\ ret' = netStatusDouble(genWhDayDouble(Tenths(call.g)),
                              whDayTotalDouble(Tenths(call.wA), Tenths(call.wB)),
                              call.v, unitMode)
    /\ lastOp' = "return"
    /\ UNCHANGED <<settings, rows, gen, editId, unitMode, manualDodChange, form,
                   kpi, scenario, autosave, reports, toast, nextId, nOps, call>>

NextNet == NetCall

SpecNet == InitNet /\ [][NextNet]_vars

(* ---- C28 ---- *)

C28_other == IF unitMode = "Wh" THEN "Ah" ELSE "Wh"

\* C28: the class on the net KPI is one of ok / warn / bad, and for the same
\* loads, sources and (positive) voltage it is the same in Wh mode and in Ah
\* mode.
C28_SameInBothModes ==
    (call.fn = "netKpi" /\ lastOp = "return") =>
        /\ ret \in {"ok", "warn", "bad"}
        /\ ret = netStatusDouble(genWhDayDouble(Tenths(call.g)),
                                 whDayTotalDouble(Tenths(call.wA),
                                                  Tenths(call.wB)),
                                 call.v, C28_other)

(* ---- C29 ---- *)

\* The sum at day i of the first n contributors of a breakdown.
RECURSIVE seriesSumAt(_, _, _)
seriesSumAt(bd, i, n) ==
    IF n = 0 THEN N(0) ELSE RAdd(seriesSumAt(bd, i, n - 1), bd[n].series[i])

C29_lengths(r, d) ==
    /\ Len(r.labels) = d
    /\ Len(r.generationWh) = d
    /\ Len(r.consumptionWh) = d
    /\ \A k \in 1..Len(r.genBreakdown) : Len(r.genBreakdown[k].series) = d
    /\ \A k \in 1..Len(r.useBreakdown) : Len(r.useBreakdown[k].series) = d

C29_contributors(r) ==
    /\ Len(r.genBreakdown) = Len(gen)
    /\ Len(r.useBreakdown) =
           Len(rows) + (IF RGt(kpi.standbyWhDay, N(0)) THEN 1 ELSE 0)
    /\ RGt(kpi.standbyWhDay, N(0)) =>
           r.useBreakdown[Len(rows) + 1].label = "Inverter standby"

C29_sums(r, d) ==
    \A i \in 1..d :
        /\ seriesSumAt(r.useBreakdown, i, Len(r.useBreakdown)) = r.consumptionWh[i]
        /\ seriesSumAt(r.genBreakdown, i, Len(r.genBreakdown)) = r.generationWh[i]

C29_otherMode == IF unitMode = "Wh" THEN "Ah" ELSE "Wh"

\* C29: in the model recalc hands to renderReports, the labels, the two
\* totals and every breakdown series have length days; useBreakdown has one
\* series per row, and one more, "Inverter standby", exactly when the standby
\* is above 0; at every day the useBreakdown series add up to consumptionWh
\* and the genBreakdown series (one per source) to generationWh; and the
\* model is the same in Wh mode and in Ah mode.
C29_ReportsConsistent ==
    lastOp = "recalc" =>
        /\ C29_lengths(reports, settings.days[1])
        /\ C29_contributors(reports)
        /\ C29_sums(reports, settings.days[1])
        /\ reports = reportsModel(settings, rows, gen,
                                  Totals(settings, rows, gen, C29_otherMode),
                                  settings.days[1])

\* recalc ran in Wh mode on a table with an AC load, with two sources and
\* three days: the standby contributor is there.
C29_Witness ==
    /\ lastOp = "recalc"
    /\ unitMode = "Wh"
    /\ settings.days = N(3)
    /\ Len(gen) = 2
    /\ Len(rows) = 2
    /\ RGt(kpi.standbyWhDay, N(0))
    /\ Len(reports.useBreakdown) = 3

(* ---- C30 ---- *)

C30_storedRows == IF "rows" \in DOMAIN scenario THEN scenario.rows ELSE <<>>

C30_storedGen == IF "gen" \in DOMAIN scenario THEN scenario.gen ELSE <<>>

\* Every part of the stored snapshot is in place.
C30_whole ==
    /\ "settings" \in DOMAIN scenario
    /\ "rowsNotArray" \notin DOMAIN scenario
    /\ "genNotArray" \notin DOMAIN scenario
    /\ Len(rows') = Len(C30_storedRows)
    /\ gen' = C30_storedGen

C30_untouched ==
    /\ rows' = rows
    /\ gen' = gen
    /\ settings' = settings

\* C30: Load Scenario on a snapshot that parses either applies the whole
\* snapshot or, when loadState fails part-way, leaves the rows, the sources
\* and the settings in memory as they were before.
C30_AllOrNothing ==
    [][(lastOp' = "loadScenario" /\ scenario # Absent /\ scenario # Garbled)
           => (C30_whole \/ C30_untouched)]_vars

====
